---------------------------- MODULE Spec2Model ----------------------------
(***************************************************************************)
(* Model of the deduplication core of ticketAI:                            *)
(*   src/deduplication/matchers.py  (metadata_match, cosine_similarity,    *)
(*                                   semantic_match, incident_match)       *)
(*   src/deduplication/service.py   (DeduplicationService.check)           *)
(*   src/deduplication/schema.py    (DuplicateMatch, DeduplicationResult)  *)
(*                                                                         *)
(* One call of DeduplicationService.check is a run of the state machine:   *)
(* the metadata loop, the semantic loop, the incident correlation and the  *)
(* action decision each advance pc.  The injected callbacks                *)
(* (embedding_fn, get_active_incident_ids, link_to_incident) are the       *)
(* environment: every invocation is appended to `calls`, and each may      *)
(* return a value or raise.                                                *)
(*                                                                         *)
(* Spec           one check() call, callbacks free to return or raise      *)
(* SpecMetadata   metadata_match called directly on a pair of records,     *)
(*                each way round                                           *)
(* SpecRepeat     check() called again and again on one instance           *)
(* SpecConcurrent two check() calls interleaved on one instance            *)
(* SpecSemantic   semantic_match called directly on one candidate          *)
(* SpecLive       one check() call whose steps are taken while one is      *)
(*                possible (every callback invocation returns or raises)   *)
(***************************************************************************)
EXTENDS Integers, Sequences, FiniteSets, TLC

VARIABLES
    svc,                 \* the DeduplicationService instance (its private fields)
    env,                 \* what the injected incident callbacks may return
    args,                \* the arguments of the check() call in progress
    pc,                  \* position inside check()
    i,                   \* index of the candidate the current loop is at (1-based)
    matches,             \* local `matches` of check()
    linked_incident_id,  \* local `linked_incident_id` of check()
    result,              \* the DeduplicationResult returned (None until return)
    raised,              \* the exception that left check() (None if none)
    calls,               \* every callback invocation so far, in order
    history,             \* the check() calls completed earlier on this instance
    other,               \* the frame of a second check() call on this instance
    probe                \* a direct call of one matcher: its inputs and outcome

vars == <<svc, env, args, pc, i, matches, linked_incident_id, result, raised, calls, history, other, probe>>

-----------------------------------------------------------------------------
(* Python values *)

\* Optional[T]: Python None is the empty set, a present value v is {v}.
None == {}
Some(v) == {v}
Val(o) == CHOOSE v \in o : TRUE

\* str values that are only compared or tested for truth are TLA+ strings;
\* str values that are stripped or normalised are sequences of characters.
StrTruthy(s) == s # ""
SeqTruthy(s) == Len(s) > 0

-----------------------------------------------------------------------------
(* Bounds of the model *)

\* Longest candidate list handed to check().
MaxCandidates == 2


-----------------------------------------------------------------------------
(* str helpers used by the matchers *)

IsSpace(c) == c \in {" ", "\t", "\n"}

UpperChars == <<"A", "B", "C", "D", "E", "T">>
LowerChars == <<"a", "b", "c", "d", "e", "t">>

\* str.lower() on one character
LowerChar(c) ==
    IF \E k \in DOMAIN UpperChars : UpperChars[k] = c
    THEN LowerChars[CHOOSE k \in DOMAIN UpperChars : UpperChars[k] = c]
    ELSE c

\* str.lower()
Lower(s) == [k \in DOMAIN s |-> LowerChar(s[k])]

RECURSIVE LStrip(_)
LStrip(s) ==
    IF s # <<>> /\ IsSpace(Head(s)) THEN LStrip(Tail(s)) ELSE s

RECURSIVE RStrip(_)
RStrip(s) ==
    IF s # <<>> /\ IsSpace(s[Len(s)]) THEN RStrip(SubSeq(s, 1, Len(s) - 1)) ELSE s

\* str.strip()
Strip(s) == RStrip(LStrip(s))

\* " ".join(re.split(r"\s+", s)): every run of whitespace becomes one space
RECURSIVE CollapseWhitespace(_)
CollapseWhitespace(s) ==
    IF s = <<>> THEN <<>>
    ELSE IF IsSpace(Head(s))
         THEN IF Len(s) > 1 /\ IsSpace(s[2])
              THEN CollapseWhitespace(Tail(s))
              ELSE <<" ">> \o CollapseWhitespace(Tail(s))
         ELSE <<Head(s)>> \o CollapseWhitespace(Tail(s))

\* matchers._normalize_error_message
_normalize_error_message(msg) ==
    IF msg = None \/ ~SeqTruthy(Val(msg))
    THEN <<>>
    ELSE CollapseWhitespace(Lower(Strip(Val(msg))))

-----------------------------------------------------------------------------
(* schema.py *)

EXACT == "exact"
LIKELY == "likely"
KNOWN_INCIDENT == "known_incident"

AUTO_MERGE == "auto_merge"
AGENT_REVIEW == "agent_review"
LINK_NOTIFY == "link_notify"
NONE == "none"

\* schema.DuplicateMatch; similarity_score is Optional, in units of 1/10000
DuplicateMatch(candidate_ticket_id, match_type, similarity_score, reason) ==
    [candidate_ticket_id |-> candidate_ticket_id,
     match_type          |-> match_type,
     similarity_score    |-> similarity_score,
     reason              |-> reason]

\* schema.DeduplicationResult
DeduplicationResult(ticket_id, action, ms, linked) ==
    [ticket_id          |-> ticket_id,
     action             |-> action,
     matches            |-> ms,
     linked_incident_id |-> linked]

\* schema.ProcessedTicketView
ProcessedTicketView(ticket_id, account_id, error_message, received_at, cleaned_text, embedding) ==
    [ticket_id     |-> ticket_id,
     account_id    |-> account_id,
     error_message |-> error_message,
     received_at   |-> received_at,
     cleaned_text  |-> cleaned_text,
     embedding     |-> embedding]

-----------------------------------------------------------------------------
(* matchers.py: metadata *)

Abs(x) == IF x < 0 THEN -x ELSE x

\* A datetime: t is its wall-clock reading in seconds, aware tells whether it
\* carries a tzinfo (an aware reading is taken in UTC)
Timestamp(t, aware) == [t |-> t, aware |-> aware]

\* matchers._same_timeframe line 36: datetime subtraction raises TypeError
\* when exactly one operand is timezone-aware
_same_timeframe_raises(received_at, candidate_at) ==
    /\ received_at # None
    /\ candidate_at # None
    /\ Val(received_at).aware # Val(candidate_at).aware

\* Faulty variant of _same_timeframe: an absent timestamp counts as being in
\* the same timeframe
_same_timeframe_absent_ok(received_at, candidate_at, window_hours) ==
    IF received_at = None \/ candidate_at = None
    THEN TRUE
    ELSE IF _same_timeframe_raises(received_at, candidate_at)
    THEN FALSE
    ELSE Abs(Val(received_at).t - Val(candidate_at).t) <= window_hours * 3600

\* Faulty variant of _same_timeframe: the difference is taken without abs()
_same_timeframe_no_abs(received_at, candidate_at, window_hours) ==
    IF received_at = None \/ candidate_at = None
    THEN FALSE
    ELSE IF _same_timeframe_raises(received_at, candidate_at)
    THEN FALSE
    ELSE Val(received_at).t - Val(candidate_at).t <= window_hours * 3600

\* matchers._same_timeframe, the value it returns when it returns;
\* window_hours is hours
_same_timeframe(received_at, candidate_at, window_hours) ==
    IF received_at = None \/ candidate_at = None
    THEN FALSE
    ELSE IF _same_timeframe_raises(received_at, candidate_at)
    THEN FALSE
    ELSE Abs(Val(received_at).t - Val(candidate_at).t) <= window_hours * 3600

REASON_ACCOUNT_ERROR_TIME == "Same account, same error string, same timeframe"
REASON_ACCOUNT_TIME == "Same account, same timeframe"

\* 1.0 in the unit of similarity_score
SCORE_ONE == 10000

\* matchers.metadata_match lines 56-59: the account check fails
account_fails(current_account_id, candidate) ==
    \/ current_account_id = None
    \/ ~SeqTruthy(Val(current_account_id))
    \/ candidate.account_id = None
    \/ ~SeqTruthy(Val(candidate.account_id))
    \/ Strip(Val(current_account_id)) # Strip(Val(candidate.account_id))

\* matchers.metadata_match lines 61-66: the error check fails
error_fails(current_error, candidate) ==
    LET n1 == _normalize_error_message(current_error)
        n2 == _normalize_error_message(candidate.error_message)
    IN  ~SeqTruthy(n1) \/ ~SeqTruthy(n2) \/ n1 # n2

\* matchers.metadata_match line 67: the call is left by the TypeError of
\* _same_timeframe, which is reached once the required checks have passed
metadata_match_raises(current_account_id, current_error, current_received_at, candidate, same_account_required, same_error_required) ==
    /\ ~(same_account_required /\ account_fails(current_account_id, candidate))
    /\ ~(same_error_required /\ error_fails(current_error, candidate))
    /\ _same_timeframe_raises(current_received_at, candidate.received_at)

\* matchers.metadata_match, the value it returns when it returns
metadata_match(current_account_id, current_error, current_received_at, candidate, same_account_required, same_error_required, time_window_hours) ==
    IF same_account_required /\ account_fails(current_account_id, candidate) THEN None
    ELSE IF same_error_required /\ error_fails(current_error, candidate) THEN None
    ELSE IF ~_same_timeframe(current_received_at, candidate.received_at,
                             time_window_hours) THEN None
    ELSE Some(DuplicateMatch(
             candidate.ticket_id,
             EXACT,
             Some(SCORE_ONE),
             IF ~same_error_required THEN REASON_ACCOUNT_TIME
             ELSE REASON_ACCOUNT_ERROR_TIME))

-----------------------------------------------------------------------------
(* matchers.py: semantic *)

\* A float that the code only compares, divides and rounds is the exact
\* fraction n/d with d > 0.
Frac(n, d) == [n |-> n, d |-> d]
FracGE(x, y) == x.n * y.d >= y.n * x.d

RECURSIVE Dot(_, _)
Dot(a, b) ==
    IF a = <<>> THEN 0 ELSE a[1] * b[1] + Dot(Tail(a), Tail(b))

\* math.sqrt; the vectors of the model have an integer Euclidean norm, so the
\* root is exact.
Sqrt(n) == CHOOSE k \in 0..n : k * k = n

\* Faulty variant of cosine_similarity: a vector of norm zero is as similar as
\* can be to any vector
cosine_similarity_zero_norm_one(a, b) ==
    IF ~SeqTruthy(a) \/ ~SeqTruthy(b) \/ Len(a) # Len(b)
    THEN Frac(0, 1)
    ELSE LET dot == Dot(a, b)
             na  == Sqrt(Dot(a, a))
             nb  == Sqrt(Dot(b, b))
         IN  IF na = 0 \/ nb = 0 THEN Frac(1, 1) ELSE Frac(dot, na * nb)

\* matchers.cosine_similarity
cosine_similarity(a, b) ==
    IF ~SeqTruthy(a) \/ ~SeqTruthy(b) \/ Len(a) # Len(b)
    THEN Frac(0, 1)
    ELSE LET dot == Dot(a, b)
             na  == Sqrt(Dot(a, a))
             nb  == Sqrt(Dot(b, b))
         IN  IF na = 0 \/ nb = 0 THEN Frac(0, 1) ELSE Frac(dot, na * nb)

\* Faulty variant of Round4: the digits after the fourth decimal are cut off
Round4_truncates(score) == (SCORE_ONE * score.n) \div score.d

\* round(score, 4), in units of 1/10000
Round4(score) == (2 * SCORE_ONE * score.n + score.d) \div (2 * score.d)

\* The reason of a semantic match is an f-string holding the score and the
\* thresholds; the model keeps the text and leaves out the formatted numbers.
REASON_SEMANTIC_EXACT == "Semantic similarity >= exact_threshold"
REASON_SEMANTIC_LIKELY == "Semantic similarity in [likely_threshold, exact_threshold)"

\* What embedding_fn returns for a text when it returns: a deterministic stub
\* of the injected callback.
EmbeddingFn(text) ==
    CASE text = "dup" -> <<4, 3>>
      [] text = "sim" -> <<5, 12>>
      [] OTHER        -> <<1, 0>>

\* Faulty variant of semantic_match: the candidate's text is embedded through
\* the provider even when the candidate carries an embedding
semantic_match_always_embeds(current_embedding, current_text, candidate, embedding_fn, exact_threshold, likely_threshold) ==
    LET embed_cand == embedding_fn /\ StrTruthy(candidate.cleaned_text)
        cand_emb ==
            IF embed_cand THEN Some(EmbeddingFn(candidate.cleaned_text))
            ELSE candidate.embedding
        embed_cur ==
            current_embedding = None /\ embedding_fn /\ StrTruthy(current_text)
        cur_emb ==
            IF embed_cur THEN Some(EmbeddingFn(current_text))
            ELSE current_embedding
        score == cosine_similarity(Val(cur_emb), Val(cand_emb))
    IN  [invoked |->
            (IF embed_cand THEN <<candidate.cleaned_text>> ELSE <<>>)
            \o (IF embed_cur THEN <<current_text>> ELSE <<>>),
         ret |->
            IF cur_emb = None \/ ~SeqTruthy(Val(cur_emb))
               \/ cand_emb = None \/ ~SeqTruthy(Val(cand_emb))
            THEN None
            ELSE IF Len(Val(cur_emb)) # Len(Val(cand_emb)) THEN None
            ELSE IF FracGE(score, exact_threshold)
            THEN Some(DuplicateMatch(candidate.ticket_id, EXACT,
                                     Some(Round4(score)), REASON_SEMANTIC_EXACT))
            ELSE IF FracGE(score, likely_threshold)
            THEN Some(DuplicateMatch(candidate.ticket_id, LIKELY,
                                     Some(Round4(score)), REASON_SEMANTIC_LIKELY))
            ELSE None]

\* Faulty variant of semantic_match: a similarity equal to a threshold falls
\* into the band below it
semantic_match_strict_bands(current_embedding, current_text, candidate, embedding_fn, exact_threshold, likely_threshold) ==
    LET embed_cand ==
            candidate.embedding = None /\ embedding_fn
            /\ StrTruthy(candidate.cleaned_text)
        cand_emb ==
            IF embed_cand THEN Some(EmbeddingFn(candidate.cleaned_text))
            ELSE candidate.embedding
        embed_cur ==
            current_embedding = None /\ embedding_fn /\ StrTruthy(current_text)
        cur_emb ==
            IF embed_cur THEN Some(EmbeddingFn(current_text))
            ELSE current_embedding
        score == cosine_similarity(Val(cur_emb), Val(cand_emb))
    IN  [invoked |->
            (IF embed_cand THEN <<candidate.cleaned_text>> ELSE <<>>)
            \o (IF embed_cur THEN <<current_text>> ELSE <<>>),
         ret |->
            IF cur_emb = None \/ ~SeqTruthy(Val(cur_emb))
               \/ cand_emb = None \/ ~SeqTruthy(Val(cand_emb))
            THEN None
            ELSE IF Len(Val(cur_emb)) # Len(Val(cand_emb)) THEN None
            ELSE IF ~FracGE(exact_threshold, score)
            THEN Some(DuplicateMatch(candidate.ticket_id, EXACT,
                                     Some(Round4(score)), REASON_SEMANTIC_EXACT))
            ELSE IF ~FracGE(likely_threshold, score)
            THEN Some(DuplicateMatch(candidate.ticket_id, LIKELY,
                                     Some(Round4(score)), REASON_SEMANTIC_LIKELY))
            ELSE None]

\* Faulty variant of semantic_match: vectors of different lengths are compared
semantic_match_no_length_check(current_embedding, current_text, candidate, embedding_fn, exact_threshold, likely_threshold) ==
    LET embed_cand ==
            candidate.embedding = None /\ embedding_fn
            /\ StrTruthy(candidate.cleaned_text)
        cand_emb ==
            IF embed_cand THEN Some(EmbeddingFn(candidate.cleaned_text))
            ELSE candidate.embedding
        embed_cur ==
            current_embedding = None /\ embedding_fn /\ StrTruthy(current_text)
        cur_emb ==
            IF embed_cur THEN Some(EmbeddingFn(current_text))
            ELSE current_embedding
        score == cosine_similarity(Val(cur_emb), Val(cand_emb))
    IN  [invoked |->
            (IF embed_cand THEN <<candidate.cleaned_text>> ELSE <<>>)
            \o (IF embed_cur THEN <<current_text>> ELSE <<>>),
         ret |->
            IF cur_emb = None \/ ~SeqTruthy(Val(cur_emb))
               \/ cand_emb = None \/ ~SeqTruthy(Val(cand_emb))
            THEN None
            ELSE IF FracGE(score, exact_threshold)
            THEN Some(DuplicateMatch(candidate.ticket_id, EXACT,
                                     Some(Round4(score)), REASON_SEMANTIC_EXACT))
            ELSE IF FracGE(score, likely_threshold)
            THEN Some(DuplicateMatch(candidate.ticket_id, LIKELY,
                                     Some(Round4(score)), REASON_SEMANTIC_LIKELY))
            ELSE None]

\* Faulty variant of semantic_match: the current text is embedded a second
\* time after the first embedding was obtained
semantic_match_embeds_current_twice(current_embedding, current_text, candidate, embedding_fn, exact_threshold, likely_threshold) ==
    LET embed_cand ==
            candidate.embedding = None /\ embedding_fn
            /\ StrTruthy(candidate.cleaned_text)
        cand_emb ==
            IF embed_cand THEN Some(EmbeddingFn(candidate.cleaned_text))
            ELSE candidate.embedding
        embed_cur ==
            current_embedding = None /\ embedding_fn /\ StrTruthy(current_text)
        cur_emb ==
            IF embed_cur THEN Some(EmbeddingFn(current_text))
            ELSE current_embedding
        score == cosine_similarity(Val(cur_emb), Val(cand_emb))
    IN  [invoked |->
            (IF embed_cand THEN <<candidate.cleaned_text>> ELSE <<>>)
            \o (IF embed_cur THEN <<current_text, current_text>> ELSE <<>>),
         ret |->
            IF cur_emb = None \/ ~SeqTruthy(Val(cur_emb))
               \/ cand_emb = None \/ ~SeqTruthy(Val(cand_emb))
            THEN None
            ELSE IF Len(Val(cur_emb)) # Len(Val(cand_emb)) THEN None
            ELSE IF FracGE(score, exact_threshold)
            THEN Some(DuplicateMatch(candidate.ticket_id, EXACT,
                                     Some(Round4(score)), REASON_SEMANTIC_EXACT))
            ELSE IF FracGE(score, likely_threshold)
            THEN Some(DuplicateMatch(candidate.ticket_id, LIKELY,
                                     Some(Round4(score)), REASON_SEMANTIC_LIKELY))
            ELSE None]

\* matchers.semantic_match.  embedding_fn is TRUE iff a callback was injected.
\* `invoked` is the texts embedding_fn is invoked with, in order; `ret` is the
\* value returned when every invocation returns.
semantic_match(current_embedding, current_text, candidate, embedding_fn, exact_threshold, likely_threshold) ==
    LET embed_cand ==
            candidate.embedding = None /\ embedding_fn
            /\ StrTruthy(candidate.cleaned_text)
        cand_emb ==
            IF embed_cand THEN Some(EmbeddingFn(candidate.cleaned_text))
            ELSE candidate.embedding
        embed_cur ==
            current_embedding = None /\ embedding_fn /\ StrTruthy(current_text)
        cur_emb ==
            IF embed_cur THEN Some(EmbeddingFn(current_text))
            ELSE current_embedding
        score == cosine_similarity(Val(cur_emb), Val(cand_emb))
    IN  [invoked |->
            (IF embed_cand THEN <<candidate.cleaned_text>> ELSE <<>>)
            \o (IF embed_cur THEN <<current_text>> ELSE <<>>),
         ret |->
            IF cur_emb = None \/ ~SeqTruthy(Val(cur_emb))
               \/ cand_emb = None \/ ~SeqTruthy(Val(cand_emb))
            THEN None
            ELSE IF Len(Val(cur_emb)) # Len(Val(cand_emb)) THEN None
            ELSE IF FracGE(score, exact_threshold)
            THEN Some(DuplicateMatch(candidate.ticket_id, EXACT,
                                     Some(Round4(score)), REASON_SEMANTIC_EXACT))
            ELSE IF FracGE(score, likely_threshold)
            THEN Some(DuplicateMatch(candidate.ticket_id, LIKELY,
                                     Some(Round4(score)), REASON_SEMANTIC_LIKELY))
            ELSE None]

-----------------------------------------------------------------------------
(* matchers.py: incident *)

REASON_INCIDENT == "Linked to active incident"

LINK_TO_INCIDENT == "link_to_incident"
GET_ACTIVE_INCIDENT_IDS == "get_active_incident_ids"

\* Faulty variant of incident_match: the incident id is not returned with the match
incident_match_drops_id(ticket_id, account_id, product, get_active_incident_ids, link_to_incident) ==
    LET incident_id ==
            IF link_to_incident # None
            THEN Val(link_to_incident)
            ELSE IF get_active_incident_ids # None
            THEN LET active == Val(get_active_incident_ids)
                 IN  IF SeqTruthy(active) THEN Some(active[1]) ELSE None
            ELSE None
    IN  [invoked |->
            IF link_to_incident # None THEN <<LINK_TO_INCIDENT>>
            ELSE IF get_active_incident_ids # None THEN <<GET_ACTIVE_INCIDENT_IDS>>
            ELSE <<>>,
         ret |->
            IF incident_id = None \/ ~StrTruthy(Val(incident_id))
            THEN <<None, None>>
            ELSE <<Some(DuplicateMatch(Val(incident_id), KNOWN_INCIDENT, None,
                                       REASON_INCIDENT)),
                   None>>]

\* Faulty variant of incident_match: `if incident_id is None` instead of
\* `if not incident_id`, so that an empty identifier is linked
incident_match_is_none_test(ticket_id, account_id, product, get_active_incident_ids, link_to_incident) ==
    LET incident_id ==
            IF link_to_incident # None
            THEN Val(link_to_incident)
            ELSE IF get_active_incident_ids # None
            THEN LET active == Val(get_active_incident_ids)
                 IN  IF SeqTruthy(active) THEN Some(active[1]) ELSE None
            ELSE None
    IN  [invoked |->
            IF link_to_incident # None THEN <<LINK_TO_INCIDENT>>
            ELSE IF get_active_incident_ids # None THEN <<GET_ACTIVE_INCIDENT_IDS>>
            ELSE <<>>,
         ret |->
            IF incident_id = None
            THEN <<None, None>>
            ELSE <<Some(DuplicateMatch(Val(incident_id), KNOWN_INCIDENT, None,
                                       REASON_INCIDENT)),
                   incident_id>>]

\* Faulty variant of incident_match: `if` instead of `elif`, so that the lister is
\* asked when the linker returns nothing
incident_match_falls_through(ticket_id, account_id, product, get_active_incident_ids, link_to_incident) ==
    LET ask_lister ==
            /\ get_active_incident_ids # None
            /\ (link_to_incident = None \/ Val(link_to_incident) = None)
        incident_id ==
            IF ask_lister
            THEN LET active == Val(get_active_incident_ids)
                 IN  IF SeqTruthy(active) THEN Some(active[1]) ELSE None
            ELSE IF link_to_incident # None THEN Val(link_to_incident)
            ELSE None
    IN  [invoked |->
            (IF link_to_incident # None THEN <<LINK_TO_INCIDENT>> ELSE <<>>)
            \o (IF ask_lister THEN <<GET_ACTIVE_INCIDENT_IDS>> ELSE <<>>),
         ret |->
            IF incident_id = None \/ ~StrTruthy(Val(incident_id))
            THEN <<None, None>>
            ELSE <<Some(DuplicateMatch(Val(incident_id), KNOWN_INCIDENT, None,
                                       REASON_INCIDENT)),
                   incident_id>>]

\* Faulty variant of incident_match: the last active incident is linked, not the first
incident_match_last_active(ticket_id, account_id, product, get_active_incident_ids, link_to_incident) ==
    LET incident_id ==
            IF link_to_incident # None
            THEN Val(link_to_incident)
            ELSE IF get_active_incident_ids # None
            THEN LET active == Val(get_active_incident_ids)
                 IN  IF SeqTruthy(active) THEN Some(active[Len(active)]) ELSE None
            ELSE None
    IN  [invoked |->
            IF link_to_incident # None THEN <<LINK_TO_INCIDENT>>
            ELSE IF get_active_incident_ids # None THEN <<GET_ACTIVE_INCIDENT_IDS>>
            ELSE <<>>,
         ret |->
            IF incident_id = None \/ ~StrTruthy(Val(incident_id))
            THEN <<None, None>>
            ELSE <<Some(DuplicateMatch(Val(incident_id), KNOWN_INCIDENT, None,
                                       REASON_INCIDENT)),
                   incident_id>>]

\* Faulty variant of incident_match: the incident match carries the score 1.0
incident_match_with_score(ticket_id, account_id, product, get_active_incident_ids, link_to_incident) ==
    LET incident_id ==
            IF link_to_incident # None
            THEN Val(link_to_incident)
            ELSE IF get_active_incident_ids # None
            THEN LET active == Val(get_active_incident_ids)
                 IN  IF SeqTruthy(active) THEN Some(active[1]) ELSE None
            ELSE None
    IN  [invoked |->
            IF link_to_incident # None THEN <<LINK_TO_INCIDENT>>
            ELSE IF get_active_incident_ids # None THEN <<GET_ACTIVE_INCIDENT_IDS>>
            ELSE <<>>,
         ret |->
            IF incident_id = None \/ ~StrTruthy(Val(incident_id))
            THEN <<None, None>>
            ELSE <<Some(DuplicateMatch(Val(incident_id), KNOWN_INCIDENT,
                                       Some(SCORE_ONE), REASON_INCIDENT)),
                   incident_id>>]

\* matchers.incident_match.  A callback parameter is None when no callback
\* was injected and Some(r) otherwise, r being what its invocation returns: a
\* list of str for get_active_incident_ids, an Optional str for
\* link_to_incident.  `invoked` is the callbacks invoked, in order; `ret` is
\* the returned pair.
incident_match(ticket_id, account_id, product, get_active_incident_ids, link_to_incident) ==
    LET incident_id ==
            IF link_to_incident # None
            THEN Val(link_to_incident)
            ELSE IF get_active_incident_ids # None
            THEN LET active == Val(get_active_incident_ids)
                 IN  IF SeqTruthy(active) THEN Some(active[1]) ELSE None
            ELSE None
    IN  [invoked |->
            IF link_to_incident # None THEN <<LINK_TO_INCIDENT>>
            ELSE IF get_active_incident_ids # None THEN <<GET_ACTIVE_INCIDENT_IDS>>
            ELSE <<>>,
         ret |->
            IF incident_id = None \/ ~StrTruthy(Val(incident_id))
            THEN <<None, None>>
            ELSE <<Some(DuplicateMatch(Val(incident_id), KNOWN_INCIDENT, None,
                                       REASON_INCIDENT)),
                   incident_id>>]

-----------------------------------------------------------------------------
(* service.py: DeduplicationService *)

\* Faulty variant of _already_matched: no candidate counts as matched
_already_matched_never(candidate_id, ms) == FALSE

\* service._already_matched
_already_matched(candidate_id, ms) ==
    \E k \in DOMAIN ms : ms[k].candidate_ticket_id = candidate_id

\* Faulty variant of is_self: the self-comparison is not excluded
is_self_never(cand, ticket_id) == FALSE

\* DeduplicationService.check, lines 74 and 89: the candidate is the current
\* ticket itself
is_self(cand, ticket_id) == cand.ticket_id = ticket_id

\* Faulty variant of decide_action: an exact match is looked for before a known incident
decide_action_exact_first(ms) ==
    IF \E k \in DOMAIN ms : ms[k].match_type = EXACT THEN AUTO_MERGE
    ELSE IF \E k \in DOMAIN ms : ms[k].match_type = KNOWN_INCIDENT THEN LINK_NOTIFY
    ELSE IF \E k \in DOMAIN ms : ms[k].match_type = LIKELY THEN AGENT_REVIEW
    ELSE NONE

\* DeduplicationService.check, lines 114-121: the action decided from matches
decide_action(ms) ==
    IF \E k \in DOMAIN ms : ms[k].match_type = KNOWN_INCIDENT THEN LINK_NOTIFY
    ELSE IF \E k \in DOMAIN ms : ms[k].match_type = EXACT THEN AUTO_MERGE
    ELSE IF \E k \in DOMAIN ms : ms[k].match_type = LIKELY THEN AGENT_REVIEW
    ELSE NONE

\* Faulty variant of append_unless_matched: the latest match of a candidate replaces
\* the one already there
append_last_wins(ms, m) ==
    IF m = None THEN ms
    ELSE Append(SelectSeq(ms, LAMBDA x : x.candidate_ticket_id # Val(m).candidate_ticket_id),
                Val(m))

\* Faulty variant of append_unless_matched: a new match is put at the front
append_at_front(ms, m) ==
    IF m # None /\ ~_already_matched(Val(m).candidate_ticket_id, ms)
    THEN <<Val(m)>> \o ms
    ELSE ms

\* DeduplicationService.check, lines 83-84 and 99-100: append m unless its
\* candidate is already matched (m is Optional)
append_unless_matched(ms, m) ==
    IF m # None /\ ~_already_matched(Val(m).candidate_ticket_id, ms)
    THEN Append(ms, Val(m))
    ELSE ms

\* Faulty variant of semantic_pass_attempted: the pass is attempted whenever
\* there are candidates
semantic_pass_attempted_any_candidates(candidates, current_embedding, embedding_fn) ==
    SeqTruthy(candidates)

\* DeduplicationService.check, line 87: is the semantic pass attempted
semantic_pass_attempted(candidates, current_embedding, embedding_fn) ==
    /\ SeqTruthy(candidates)
    /\ \/ (current_embedding # None /\ SeqTruthy(Val(current_embedding)))
       \/ embedding_fn

\* One entry of the log of callback invocations.
Call(fn, arg, outcome, ret) ==
    [fn |-> fn, arg |-> arg, outcome |-> outcome, ret |-> ret]

RETURNED == "returned"
RAISED == "raised"

-----------------------------------------------------------------------------
(* The inputs the model draws *)

\* Default thresholds of DeduplicationService.__init__: 0.92, 0.85, 1.0 hour
DEFAULT_EXACT_THRESHOLD == Frac(23, 25)
DEFAULT_LIKELY_THRESHOLD == Frac(17, 20)
DEFAULT_WINDOW_HOURS == 1

\* DeduplicationService.__init__: a callback field is TRUE iff one was injected
Services ==
    [_embedding_fn         : BOOLEAN,
     _semantic_exact       : {DEFAULT_EXACT_THRESHOLD},
     _semantic_likely      : {DEFAULT_LIKELY_THRESHOLD},
     _metadata_window      : {DEFAULT_WINDOW_HOURS},
     _get_active_incidents : BOOLEAN,
     _link_to_incident     : BOOLEAN]

TicketIds == {"T1", "T2", "T3"}

\* Candidates: the account decides the metadata match (error and time agree
\* with the current record after normalisation), the embedding and the text
\* decide the semantic match.
NaiveCandidates ==
    { ProcessedTicketView(id, Some(acc), Some(<<"d", "b", " ", " ", "e">>),
                          Some(Timestamp(1200, FALSE)), te[1], te[2]) :
        id \in TicketIds,
        acc \in {<<"A", "1", " ">>, <<"A", "2">>},
        te \in {<<"dup", Some(<<4, 3>>)>>, <<"sim", Some(<<5, 12>>)>>,
                <<"dup", None>>, <<"", None>>} }

\* Candidates whose received_at is timezone-aware (a parsed date that carried
\* an offset), with the account and the error of the current record
AwareCandidates ==
    { ProcessedTicketView(id, Some(<<"A", "1", " ">>), Some(<<"d", "b", " ", " ", "e">>),
                          Some(Timestamp(1200, TRUE)), "dup", None) :
        id \in TicketIds }

Candidates == NaiveCandidates \cup AwareCandidates

RECURSIVE SeqsUpTo(_, _)
SeqsUpTo(S, n) ==
    IF n = 0 THEN {<<>>}
    ELSE LET shorter == SeqsUpTo(S, n - 1)
         IN  shorter \cup {Append(q, x) : q \in {r \in shorter : Len(r) = n - 1}, x \in S}

\* The arguments of one check() call
CheckArgs ==
    [ticket_id         : {"T1"},
     account_id        : {Some(<<"A", "1">>)},
     error_message     : {Some(<<"D", "b", " ", "E">>)},
     received_at       : {Some(Timestamp(0, FALSE))},
     cleaned_text      : {"dup"},
     current_embedding : {None, Some(<<4, 3>>)},
     candidates        : SeqsUpTo(Candidates, MaxCandidates),
     product           : {None}]

\* What an invocation of link_to_incident may return (str | None)
LinkerReturns == {None, Some(""), Some("INC-42"), Some("T2")}

\* What an invocation of get_active_incident_ids may return (list[str])
ListerReturns == {<<>>, <<"">>, <<"INC-42", "INC-7">>, <<"T2", "INC-42">>}

-----------------------------------------------------------------------------
(* DeduplicationService.check as a state machine *)

\* Incident callbacks that may return anything their type allows, a
\* different value at every invocation
AnyIncidentCallbacks == [linker |-> LinkerReturns, lister |-> ListerReturns]

\* No second check() call is in progress
NoOther == [pc |-> "absent"]

\* No matcher is called directly
NoProbe == [pc |-> "absent"]

\* The locals of check() at its entry (service.py lines 69-70)
EnterCheck ==
    /\ pc = "metadata"
    /\ i = 1
    /\ matches = <<>>
    /\ linked_incident_id = None
    /\ result = None
    /\ raised = None
    /\ calls = <<>>

Init ==
    /\ svc \in Services
    /\ env = AnyIncidentCallbacks
    /\ args \in CheckArgs
    /\ EnterCheck
    /\ history = <<>>
    /\ other = NoOther
    /\ probe = NoProbe

\* service.py lines 74-76: metadata_match is called on the k-th candidate and
\* the call raises
metadata_raises_at(k) ==
    LET cand == args.candidates[k]
    IN  /\ ~is_self(cand, args.ticket_id)
        /\ metadata_match_raises(args.account_id, args.error_message,
                                 args.received_at, cand, TRUE, TRUE)

\* Faulty variant of MetadataStep: the incident callback is invoked for every
\* candidate inside the loop
MetadataStep_correlates ==
    /\ pc = "metadata"
    /\ i <= Len(args.candidates)
    /\ ~metadata_raises_at(i)
    /\ LET cand == args.candidates[i]
       IN  matches' =
             IF is_self(cand, args.ticket_id)
             THEN matches
             ELSE append_unless_matched(
                      matches,
                      metadata_match(args.account_id, args.error_message,
                                     args.received_at, cand, TRUE, TRUE,
                                     svc._metadata_window))
    /\ calls' =
         IF svc._link_to_incident
         THEN Append(calls, Call(LINK_TO_INCIDENT,
                                 <<args.ticket_id, args.account_id, args.product>>,
                                 RETURNED, None))
         ELSE IF svc._get_active_incidents
         THEN Append(calls, Call(GET_ACTIVE_INCIDENT_IDS, <<>>, RETURNED, <<>>))
         ELSE calls
    /\ i' = i + 1
    /\ UNCHANGED <<svc, env, history, other, probe, args, pc, linked_incident_id, result, raised>>

\* service.py lines 73-84: one iteration of the metadata loop
MetadataStep ==
    /\ pc = "metadata"
    /\ i <= Len(args.candidates)
    /\ ~metadata_raises_at(i)
    /\ LET cand == args.candidates[i]
       IN  matches' =
             IF is_self(cand, args.ticket_id)
             THEN matches
             ELSE append_unless_matched(
                      matches,
                      metadata_match(args.account_id, args.error_message,
                                     args.received_at, cand, TRUE, TRUE,
                                     svc._metadata_window))
    /\ i' = i + 1
    /\ UNCHANGED <<svc, env, history, other, probe, args, pc, linked_incident_id, result, raised, calls>>

\* service.py lines 73-76: metadata_match raises TypeError; the exception
\* leaves check()
MetadataRaise ==
    /\ pc = "metadata"
    /\ i <= Len(args.candidates)
    /\ metadata_raises_at(i)
    /\ pc' = "raised"
    /\ raised' = Some("TypeError")
    /\ UNCHANGED <<svc, env, history, other, probe, args, i, matches, linked_incident_id, result, calls>>

\* service.py line 87, condition true: the semantic loop starts
EnterSemantic ==
    /\ pc = "metadata"
    /\ i > Len(args.candidates)
    /\ semantic_pass_attempted(args.candidates, args.current_embedding,
                               svc._embedding_fn)
    /\ pc' = "semantic"
    /\ i' = 1
    /\ UNCHANGED <<svc, env, history, other, probe, args, matches, linked_incident_id, result, raised, calls>>

\* service.py line 87, condition false: the semantic loop is skipped
SkipSemantic ==
    /\ pc = "metadata"
    /\ i > Len(args.candidates)
    /\ ~semantic_pass_attempted(args.candidates, args.current_embedding,
                                svc._embedding_fn)
    /\ pc' = "incident"
    /\ UNCHANGED <<svc, env, history, other, probe, args, i, matches, linked_incident_id, result, raised, calls>>

\* The log entries of embedding_fn invocations on texts, the first n - 1
\* returning and the n-th returning iff last_returns
EmbeddingCalls(texts, n, last_returns) ==
    [k \in 1..n |->
        IF k < n \/ last_returns
        THEN Call("embedding_fn", <<texts[k]>>, RETURNED, Some(EmbeddingFn(texts[k])))
        ELSE Call("embedding_fn", <<texts[k]>>, RAISED, None)]

\* Faulty variant of SemanticStep: an embedding computed through the provider
\* is stored into the candidate record
SemanticStep_caches_embedding ==
    /\ pc = "semantic"
    /\ i <= Len(args.candidates)
    /\ LET cand == args.candidates[i]
           r == semantic_match(args.current_embedding, args.cleaned_text, cand,
                               svc._embedding_fn, svc._semantic_exact,
                               svc._semantic_likely)
           computed == cand.embedding = None /\ svc._embedding_fn
                       /\ StrTruthy(cand.cleaned_text)
       IN  IF is_self(cand, args.ticket_id)
           THEN UNCHANGED <<matches, calls, args>>
           ELSE /\ matches' = append_unless_matched(matches, r.ret)
                /\ calls' = calls \o EmbeddingCalls(r.invoked, Len(r.invoked), TRUE)
                /\ args' = IF computed
                           THEN [args EXCEPT !.candidates[i].embedding =
                                                 Some(EmbeddingFn(cand.cleaned_text))]
                           ELSE args
    /\ i' = i + 1
    /\ UNCHANGED <<svc, env, history, other, probe, pc, linked_incident_id, result, raised>>

\* Faulty variant of SemanticStep: a candidate that is already matched is
\* skipped before semantic_match is called
SemanticStep_skips_matched ==
    /\ pc = "semantic"
    /\ i <= Len(args.candidates)
    /\ LET cand == args.candidates[i]
           r == semantic_match(args.current_embedding, args.cleaned_text, cand,
                               svc._embedding_fn, svc._semantic_exact,
                               svc._semantic_likely)
       IN  IF is_self(cand, args.ticket_id) \/ _already_matched(cand.ticket_id, matches)
           THEN UNCHANGED <<matches, calls>>
           ELSE /\ matches' = append_unless_matched(matches, r.ret)
                /\ calls' = calls \o EmbeddingCalls(r.invoked, Len(r.invoked), TRUE)
    /\ i' = i + 1
    /\ UNCHANGED <<svc, env, history, other, probe, args, pc, linked_incident_id, result, raised>>

\* service.py lines 88-100: one iteration of the semantic loop in which every
\* embedding_fn invocation returns
SemanticStep ==
    /\ pc = "semantic"
    /\ i <= Len(args.candidates)
    /\ LET cand == args.candidates[i]
           r == semantic_match(args.current_embedding, args.cleaned_text, cand,
                               svc._embedding_fn, svc._semantic_exact,
                               svc._semantic_likely)
       IN  IF is_self(cand, args.ticket_id)
           THEN UNCHANGED <<matches, calls>>
           ELSE /\ matches' = append_unless_matched(matches, r.ret)
                /\ calls' = calls \o EmbeddingCalls(r.invoked, Len(r.invoked), TRUE)
    /\ i' = i + 1
    /\ UNCHANGED <<svc, env, history, other, probe, args, pc, linked_incident_id, result, raised>>

\* Faulty variant of SemanticRaise: the provider's exception is suppressed and
\* the loop goes on with the next candidate
SemanticRaise_suppressed ==
    /\ pc = "semantic"
    /\ i <= Len(args.candidates)
    /\ LET cand == args.candidates[i]
           r == semantic_match(args.current_embedding, args.cleaned_text, cand,
                               svc._embedding_fn, svc._semantic_exact,
                               svc._semantic_likely)
       IN  /\ ~is_self(cand, args.ticket_id)
           /\ \E n \in DOMAIN r.invoked :
                calls' = calls \o EmbeddingCalls(r.invoked, n, FALSE)
    /\ i' = i + 1
    /\ UNCHANGED <<svc, env, history, other, probe, args, pc, matches, linked_incident_id, result, raised>>

\* service.py lines 88-98: an embedding_fn invocation raises; the exception
\* leaves semantic_match and check()
SemanticRaise ==
    /\ pc = "semantic"
    /\ i <= Len(args.candidates)
    /\ LET cand == args.candidates[i]
           r == semantic_match(args.current_embedding, args.cleaned_text, cand,
                               svc._embedding_fn, svc._semantic_exact,
                               svc._semantic_likely)
       IN  /\ ~is_self(cand, args.ticket_id)
           /\ \E n \in DOMAIN r.invoked :
                calls' = calls \o EmbeddingCalls(r.invoked, n, FALSE)
    /\ pc' = "raised"
    /\ raised' = Some("embedding_fn")
    /\ UNCHANGED <<svc, env, history, other, probe, args, i, matches, linked_incident_id, result>>

\* Faulty variant of SemanticDone: the exhausted semantic loop never hands
\* over to the incident pass
SemanticDone_stalls ==
    /\ pc = "semantic"
    /\ i > Len(args.candidates)
    /\ UNCHANGED vars

\* service.py line 88: the semantic loop is exhausted
SemanticDone ==
    /\ pc = "semantic"
    /\ i > Len(args.candidates)
    /\ pc' = "incident"
    /\ UNCHANGED <<svc, env, history, other, probe, args, i, matches, linked_incident_id, result, raised, calls>>

\* What the injected incident callbacks of this service may return if invoked
\* (a callback that is not injected returns nothing)
PossibleLinkerReturns == IF svc._link_to_incident THEN env.linker ELSE {None}
PossibleListerReturns == IF svc._get_active_incidents THEN env.lister ELSE {<<>>}

\* The log entries of the incident callbacks invoked: link_to_incident gets
\* (ticket_id, account_id, product) and returns linked, get_active_incident_ids
\* gets no argument and returns active; the first n - 1 invocations return
\* and the n-th returns iff last_returns
IncidentCalls(invoked, n, last_returns, linked, active) ==
    [k \in 1..n |->
        LET fn == invoked[k]
            arg == IF fn = LINK_TO_INCIDENT
                   THEN <<args.ticket_id, args.account_id, args.product>>
                   ELSE <<>>
        IN  IF k < n \/ last_returns
            THEN Call(fn, arg, RETURNED, IF fn = LINK_TO_INCIDENT THEN linked ELSE active)
            ELSE Call(fn, arg, RAISED, None)]

\* service.py lines 103-112: incident_match returns; linked and active are
\* what link_to_incident and get_active_incident_ids return if invoked
IncidentStep ==
    /\ pc = "incident"
    /\ pc' = "decide"
    /\ \E linked \in PossibleLinkerReturns, active \in PossibleListerReturns :
         LET r == incident_match(
                      args.ticket_id, args.account_id, args.product,
                      IF svc._get_active_incidents THEN Some(active) ELSE None,
                      IF svc._link_to_incident THEN Some(linked) ELSE None)
             inc_match == r.ret[1]
             inc_id == r.ret[2]
         IN  /\ calls' = calls \o IncidentCalls(r.invoked, Len(r.invoked), TRUE,
                                                linked, active)
             /\ matches' = IF inc_match # None
                           THEN Append(matches, Val(inc_match)) ELSE matches
             /\ linked_incident_id' = IF inc_match # None
                                      THEN inc_id ELSE linked_incident_id
    /\ UNCHANGED <<svc, env, history, other, probe, args, i, result, raised>>

\* service.py line 103, matchers.py lines 154 and 156: an incident callback
\* raises; the exception leaves incident_match and check()
IncidentRaise ==
    /\ pc = "incident"
    /\ pc' = "raised"
    /\ \E linked \in PossibleLinkerReturns, active \in PossibleListerReturns :
         LET r == incident_match(
                      args.ticket_id, args.account_id, args.product,
                      IF svc._get_active_incidents THEN Some(active) ELSE None,
                      IF svc._link_to_incident THEN Some(linked) ELSE None)
         IN  \E n \in DOMAIN r.invoked :
                /\ calls' = calls \o IncidentCalls(r.invoked, n, FALSE, linked, active)
                /\ raised' = Some(r.invoked[n])
    /\ UNCHANGED <<svc, env, history, other, probe, args, i, matches, linked_incident_id, result>>

\* service.py lines 114-128: decide the action and return the result
Decide ==
    /\ pc = "decide"
    /\ result' = Some(DeduplicationResult(args.ticket_id, decide_action(matches),
                                          matches, linked_incident_id))
    /\ pc' = "returned"
    /\ UNCHANGED <<svc, env, history, other, probe, args, i, matches, linked_incident_id, raised, calls>>

Next ==
    \/ MetadataStep
    \/ MetadataRaise
    \/ EnterSemantic
    \/ SkipSemantic
    \/ SemanticStep
    \/ SemanticRaise
    \/ SemanticDone
    \/ IncidentStep
    \/ IncidentRaise
    \/ Decide

Spec == Init /\ [][Next]_vars

-----------------------------------------------------------------------------
(* Vocabulary of the properties *)

\* check() has returned its DeduplicationResult (the Decision)
Returned == pc = "returned"
Decision == Val(result)

\* Which matcher detected a match, read from its reason
IsMetadataDetected(m) == m.reason \in {REASON_ACCOUNT_ERROR_TIME, REASON_ACCOUNT_TIME}
IsSemanticDetected(m) == m.reason \in {REASON_SEMANTIC_EXACT, REASON_SEMANTIC_LIKELY}

Kinds(ms) == {ms[k].match_type : k \in DOMAIN ms}

\* The verdict of each matcher on candidate k of the call
MetadataVerdict(k) ==
    metadata_match(args.account_id, args.error_message, args.received_at,
                   args.candidates[k], TRUE, TRUE, svc._metadata_window)
SemanticVerdict(k) ==
    semantic_match(args.current_embedding, args.cleaned_text, args.candidates[k],
                   svc._embedding_fn, svc._semantic_exact, svc._semantic_likely).ret

\* Positions in the log of the incident callback invocations
IncidentCallIndexes ==
    {k \in DOMAIN calls : calls[k].fn \in {LINK_TO_INCIDENT, GET_ACTIVE_INCIDENT_IDS}}
LastCall == calls[Len(calls)]
LinkerReturned(k) == calls[k].fn = LINK_TO_INCIDENT /\ calls[k].outcome = RETURNED
ListerReturned(k) == calls[k].fn = GET_ACTIVE_INCIDENT_IDS /\ calls[k].outcome = RETURNED

\* The incident identifier the environment handed over in this call: what the
\* linker returned, or the first element of what the lister returned
ObtainedIncidentId ==
    IF \E k \in DOMAIN calls : LinkerReturned(k)
    THEN calls[CHOOSE k \in DOMAIN calls : LinkerReturned(k)].ret
    ELSE IF \E k \in DOMAIN calls : ListerReturned(k)
    THEN LET active == calls[CHOOSE k \in DOMAIN calls : ListerReturned(k)].ret
         IN  IF active = <<>> THEN None ELSE Some(active[1])
    ELSE None

-----------------------------------------------------------------------------
(* C1 *)

\* C1: the action of a returned Decision is decided by the kinds present in
\* its matches alone, by the priority KnownIncident > Exact > Likely, and it
\* is None exactly when matches is empty.
C1_ActionByKindPriority ==
    Returned =>
        LET K == Kinds(Decision.matches)
            a == Decision.action
        IN  /\ KNOWN_INCIDENT \in K => a = LINK_NOTIFY
            /\ (KNOWN_INCIDENT \notin K /\ EXACT \in K) => a = AUTO_MERGE
            /\ (KNOWN_INCIDENT \notin K /\ EXACT \notin K /\ LIKELY \in K)
                   => a = AGENT_REVIEW
            /\ K \cap {KNOWN_INCIDENT, EXACT, LIKELY} = {} => a = NONE
            /\ a = NONE <=> Decision.matches = <<>>

\* A Decision holding a KnownIncident, an Exact and a Likely match at once
C1_Witness ==
    /\ Returned
    /\ Kinds(Decision.matches) = {KNOWN_INCIDENT, EXACT, LIKELY}

-----------------------------------------------------------------------------
(* C2 *)

\* C2: a returned Decision has a linked_incident_id iff its action is
\* LinkAndNotify, and the id is the one the linker or the lister handed over.
C2_LinkedIdIffLinkNotify ==
    Returned =>
        /\ Decision.linked_incident_id # None <=> Decision.action = LINK_NOTIFY
        /\ Decision.linked_incident_id # None =>
               Decision.linked_incident_id = ObtainedIncidentId

\* The linker returned "INC-42" while a metadata and a semantic match were found
C2_Witness ==
    /\ Returned
    /\ calls # <<>>
    /\ LastCall.fn = LINK_TO_INCIDENT
    /\ LastCall.ret = Some("INC-42")
    /\ Decision.linked_incident_id = Some("INC-42")
    /\ \E j, k \in DOMAIN Decision.matches :
           /\ IsMetadataDetected(Decision.matches[j])
           /\ IsSemanticDetected(Decision.matches[k])

-----------------------------------------------------------------------------
(* C3 *)

\* C3 as claimed: with an empty candidate list the Decision has action None
\* and zero matches, whatever callbacks are injected.
C3_EmptyCandidatesAlwaysNone ==
    (Returned /\ args.candidates = <<>>) =>
        (Decision.action = NONE /\ Decision.matches = <<>>)

\* C3 amended: with an empty candidate list the Decision has no Exact or
\* Likely match; it has action None and zero matches unless the linker or
\* the lister handed over a non-empty incident identifier, and then it has
\* that one KnownIncident match and action LinkAndNotify.
C3_EmptyCandidatesOnlyIncident ==
    (Returned /\ args.candidates = <<>>) =>
        IF ObtainedIncidentId # None /\ Val(ObtainedIncidentId) # ""
        THEN /\ Len(Decision.matches) = 1
             /\ Decision.matches[1].match_type = KNOWN_INCIDENT
             /\ Decision.matches[1].candidate_ticket_id = Val(ObtainedIncidentId)
             /\ Decision.action = LINK_NOTIFY
        ELSE /\ Decision.matches = <<>>
             /\ Decision.action = NONE

\* An empty candidate list on a service with a linker and an embedding
\* provider, the linker returning nothing
C3_Witness ==
    /\ Returned
    /\ args.candidates = <<>>
    /\ svc._embedding_fn
    /\ svc._link_to_incident
    /\ Decision.matches = <<>>

-----------------------------------------------------------------------------
(* C4 *)

\* C4 as claimed: no two matches of a returned Decision have the same
\* candidate_id.
C4_NoTwoMatchesShareId ==
    Returned =>
        \A j, k \in DOMAIN Decision.matches :
            j # k => Decision.matches[j].candidate_ticket_id
                         # Decision.matches[k].candidate_ticket_id

\* C4 amended: two matches of a returned Decision have the same candidate_id
\* only if the later one is the KnownIncident match and the earlier one is
\* not: the metadata and semantic matches have pairwise distinct ids.
C4_NoTwoCandidateMatchesShareId ==
    Returned =>
        \A j, k \in DOMAIN Decision.matches :
            (j < k /\ Decision.matches[j].candidate_ticket_id
                          = Decision.matches[k].candidate_ticket_id)
            => /\ Decision.matches[k].match_type = KNOWN_INCIDENT
               /\ Decision.matches[j].match_type # KNOWN_INCIDENT

\* A candidate list that repeats an id, both entries matched by metadata
C4_Witness ==
    /\ Returned
    /\ Len(args.candidates) >= 2
    /\ args.candidates[1].ticket_id = args.candidates[2].ticket_id
    /\ args.candidates[1].ticket_id # args.ticket_id
    /\ MetadataVerdict(1) # None
    /\ MetadataVerdict(2) # None
    /\ SemanticVerdict(2) # None

-----------------------------------------------------------------------------
(* C5 *)

\* Candidate k is compared (it is not the current ticket) and both matchers
\* match it
MatchedByBoth(k) ==
    /\ args.candidates[k].ticket_id # args.ticket_id
    /\ MetadataVerdict(k) # None
    /\ SemanticVerdict(k) # None

\* The metadata-detected match of a candidate id
IsMetadataMatchOf(m, id) ==
    /\ m.candidate_ticket_id = id
    /\ m.match_type = EXACT
    /\ m.similarity_score = Some(SCORE_ONE)
    /\ IsMetadataDetected(m)

\* C5 as claimed: a candidate matched by both matchers has exactly one match
\* with its id in the Decision, the metadata-detected one.
C5_BothMatchedExactlyOneMatch ==
    Returned =>
        \A k \in DOMAIN args.candidates :
            MatchedByBoth(k) =>
                LET id == args.candidates[k].ticket_id
                    S == {j \in DOMAIN Decision.matches :
                             Decision.matches[j].candidate_ticket_id = id}
                IN  /\ Cardinality(S) = 1
                    /\ \A j \in S : IsMetadataMatchOf(Decision.matches[j], id)

\* C5 amended: a candidate matched by both matchers has exactly one match with
\* its id among the matches that are not KnownIncident, the metadata-detected
\* one; no semantic match carries its id.
C5_BothMatchedMetadataWins ==
    Returned =>
        \A k \in DOMAIN args.candidates :
            MatchedByBoth(k) =>
                LET id == args.candidates[k].ticket_id
                    S == {j \in DOMAIN Decision.matches :
                             /\ Decision.matches[j].candidate_ticket_id = id
                             /\ Decision.matches[j].match_type # KNOWN_INCIDENT}
                IN  /\ Cardinality(S) = 1
                    /\ \A j \in S : IsMetadataMatchOf(Decision.matches[j], id)

\* A candidate matched by both matchers, after a semantic pass that ran
C5_Witness ==
    /\ Returned
    /\ \E k \in DOMAIN args.candidates : MatchedByBoth(k)
    /\ semantic_pass_attempted(args.candidates, args.current_embedding,
                               svc._embedding_fn)

-----------------------------------------------------------------------------
(* C6 *)

\* C6: no metadata or semantic match of a returned Decision carries the id of
\* the current record: a candidate with that id contributes no match.
C6_SelfExcluded ==
    Returned =>
        \A j \in DOMAIN Decision.matches :
            Decision.matches[j].match_type # KNOWN_INCIDENT
            => Decision.matches[j].candidate_ticket_id # args.ticket_id

\* A candidate with the id of the current record that both matchers would
\* match, after a semantic pass that ran
C6_Witness ==
    /\ Returned
    /\ \E k \in DOMAIN args.candidates :
           /\ args.candidates[k].ticket_id = args.ticket_id
           /\ MetadataVerdict(k) # None
           /\ SemanticVerdict(k) # None
    /\ semantic_pass_attempted(args.candidates, args.current_embedding,
                               svc._embedding_fn)

-----------------------------------------------------------------------------
(* C7 *)

\* The pass that detected a match: 1 metadata, 2 semantic, 3 incident
DetectionPass(m) ==
    IF m.match_type = KNOWN_INCIDENT THEN 3
    ELSE IF IsMetadataDetected(m) THEN 1
    ELSE 2

\* The position in the candidate list of the candidate a metadata or semantic
\* match was detected on: the first compared candidate with its id that the
\* matcher of its pass matches (0 if there is none)
DetectedAt(m) ==
    LET P == {k \in DOMAIN args.candidates :
                 /\ args.candidates[k].ticket_id = m.candidate_ticket_id
                 /\ args.candidates[k].ticket_id # args.ticket_id
                 /\ IF DetectionPass(m) = 1
                    THEN MetadataVerdict(k) # None
                    ELSE SemanticVerdict(k) # None}
    IN  IF P = {} THEN 0 ELSE CHOOSE k \in P : \A q \in P : k <= q

\* C7: the matches of a returned Decision are in detection order: the
\* metadata matches in candidate-list order, then the semantic matches in
\* candidate-list order, then the KnownIncident match, if any, last.
C7_MatchesInDetectionOrder ==
    Returned =>
        \A j, k \in DOMAIN Decision.matches :
            j < k =>
                LET a == Decision.matches[j]
                    b == Decision.matches[k]
                IN  /\ DetectionPass(a) <= DetectionPass(b)
                    /\ DetectionPass(a) < 3
                    /\ DetectionPass(a) = DetectionPass(b)
                           => (0 < DetectedAt(a) /\ DetectedAt(a) < DetectedAt(b))

\* A Decision with a metadata match, a semantic match and the KnownIncident
\* match
C7_Witness ==
    /\ Returned
    /\ Len(Decision.matches) = 3
    /\ DetectionPass(Decision.matches[1]) = 1
    /\ DetectionPass(Decision.matches[2]) = 2
    /\ DetectionPass(Decision.matches[3]) = 3

-----------------------------------------------------------------------------
(* C8 *)

\* C8: at most one incident callback invocation happens per check(), it comes
\* after every embedding_fn invocation (after both passes), and a check() that
\* returns has made exactly one iff a linker or a lister is injected.
C8_IncidentCorrelatedOnce ==
    /\ Cardinality(IncidentCallIndexes) <= 1
    /\ \A k \in IncidentCallIndexes : k = Len(calls)
    /\ IncidentCallIndexes # {} => pc \in {"decide", "returned", "raised"}
    /\ Returned =>
           (Cardinality(IncidentCallIndexes) = 1
                <=> (svc._link_to_incident \/ svc._get_active_incidents))

\* A full candidate list, two of its candidates matched, embedding_fn invoked
\* in the semantic pass, and one incident callback invocation at the end
C8_Witness ==
    /\ Returned
    /\ Len(args.candidates) >= 2
    /\ Len(Decision.matches) = 3
    /\ Len(calls) >= 3
    /\ Cardinality(IncidentCallIndexes) = 1

-----------------------------------------------------------------------------
(* C9 *)

\* C9: with a linker injected the lister is never invoked, and when the
\* linker returns nothing the returned Decision has no KnownIncident match.
C9_LinkerPrecedesLister ==
    svc._link_to_incident =>
        /\ \A k \in DOMAIN calls : calls[k].fn # GET_ACTIVE_INCIDENT_IDS
        /\ (Returned /\ LastCall.ret = None) =>
               /\ KNOWN_INCIDENT \notin Kinds(Decision.matches)
               /\ Decision.action # LINK_NOTIFY
               /\ Decision.linked_incident_id = None

\* A linker and a lister are injected, the linker returned nothing, and other
\* matches were found
C9_Witness ==
    /\ Returned
    /\ svc._link_to_incident
    /\ svc._get_active_incidents
    /\ LastCall.fn = LINK_TO_INCIDENT
    /\ LastCall.ret = None
    /\ Decision.matches # <<>>

-----------------------------------------------------------------------------
(* C10 *)

\* The lister was invoked (no linker is injected) and check() returned
ListerUsed ==
    /\ Returned
    /\ ~svc._link_to_incident
    /\ svc._get_active_incidents

\* The Decision links the incident id: action LinkAndNotify, the last match
\* is the KnownIncident match of id, linked_incident_id is id
LinksIncident(id) ==
    /\ Decision.action = LINK_NOTIFY
    /\ Decision.matches # <<>>
    /\ Decision.matches[Len(Decision.matches)].match_type = KNOWN_INCIDENT
    /\ Decision.matches[Len(Decision.matches)].candidate_ticket_id = id
    /\ Decision.linked_incident_id = Some(id)

\* C10 as claimed: without a linker, a non-empty list from the lister links
\* its first element, and an empty list gives no KnownIncident match.
C10_ListerFirstOfNonEmptyList ==
    ListerUsed =>
        IF LastCall.ret # <<>>
        THEN LinksIncident(LastCall.ret[1])
        ELSE KNOWN_INCIDENT \notin Kinds(Decision.matches)

\* C10 amended: without a linker, a list from the lister whose first element
\* is a non-empty identifier links that first element (later elements are
\* never used); an empty list, or one whose first element is the empty
\* string, gives no KnownIncident match.
C10_ListerFirstNonEmptyId ==
    ListerUsed =>
        IF LastCall.ret # <<>> /\ LastCall.ret[1] # ""
        THEN LinksIncident(LastCall.ret[1])
        ELSE /\ KNOWN_INCIDENT \notin Kinds(Decision.matches)
             /\ Decision.linked_incident_id = None

\* The lister returned two identifiers and other matches were found
C10_Witness ==
    /\ ListerUsed
    /\ Len(LastCall.ret) = 2
    /\ LastCall.ret[1] # LastCall.ret[2]
    /\ Len(Decision.matches) >= 2

-----------------------------------------------------------------------------
(* C11 *)

\* The caller supplied neither a current embedding nor an embedding provider
NoEmbeddingSource == args.current_embedding = None /\ ~svc._embedding_fn

\* Positions in the log of the embedding provider invocations
EmbeddingCallIndexes == {k \in DOMAIN calls : calls[k].fn = "embedding_fn"}

\* C11: when the caller supplies neither a current embedding nor an embedding
\* provider, the semantic loop is never entered, the provider is never
\* invoked, and every match of the Decision is metadata-detected or
\* KnownIncident, whatever embeddings the candidates carry.
C11_NoEmbeddingSourceNoSemanticMatch ==
    NoEmbeddingSource =>
        /\ pc # "semantic"
        /\ EmbeddingCallIndexes = {}
        /\ Returned =>
             \A k \in DOMAIN Decision.matches :
                \/ IsMetadataDetected(Decision.matches[k])
                \/ Decision.matches[k].match_type = KNOWN_INCIDENT

C11_Witness ==
    /\ Returned
    /\ NoEmbeddingSource
    /\ \E k \in DOMAIN args.candidates :
         /\ ~is_self(args.candidates[k], args.ticket_id)
         /\ args.candidates[k].embedding # None
    /\ \E k \in DOMAIN Decision.matches : IsMetadataDetected(Decision.matches[k])
    /\ \E k \in DOMAIN Decision.matches : Decision.matches[k].match_type = KNOWN_INCIDENT

-----------------------------------------------------------------------------
(* C12 *)

\* The texts of the embedding provider invocations logged at positions a..b
EmbeddedTexts(log, a, b) ==
    LET idx == {k \in a..b : log[k].fn = "embedding_fn"}
    IN  [k \in 1..Cardinality(idx) |->
            log[CHOOSE j \in idx : Cardinality({h \in idx : h <= j}) = k].arg[1]]

\* The subsequences of a sequence of at most two elements
SubSeqsOfPair(t) == {<<>>, t} \cup {<<t[k]>> : k \in DOMAIN t}

\* The texts the provider may be asked to embed while candidate k is compared:
\* the candidate's if it carries no embedding, then the current record's if
\* no current embedding was supplied
TextsLackingVector(k) ==
    (IF args.candidates[k].embedding = None
     THEN <<args.candidates[k].cleaned_text>> ELSE <<>>)
    \o (IF args.current_embedding = None THEN <<args.cleaned_text>> ELSE <<>>)

\* C12: every step of evaluate invokes the embedding provider only for a
\* record that lacks a precomputed vector: while a candidate is compared in
\* the semantic pass, at most with that candidate's text if it carries no
\* embedding and then with the current text if no current embedding was
\* supplied; in every other step not at all.  So the provider is not invoked
\* at all when the current record and every candidate carry embeddings.
C12_ProviderOnlyForMissingVectors ==
    [][ LET new == EmbeddedTexts(calls', Len(calls) + 1, Len(calls'))
        IN  /\ Len(calls') >= Len(calls)
            /\ IF pc = "semantic" /\ i <= Len(args.candidates)
               THEN new \in SubSeqsOfPair(TextsLackingVector(i))
               ELSE new = <<>> ]_vars

C12_Witness ==
    /\ Returned
    /\ svc._embedding_fn
    /\ args.current_embedding # None
    /\ Len(args.candidates) = 2
    /\ ~is_self(args.candidates[1], args.ticket_id)
    /\ ~is_self(args.candidates[2], args.ticket_id)
    /\ args.candidates[1].embedding # None
    /\ args.candidates[1].cleaned_text = "dup"
    /\ args.candidates[2].embedding = None
    /\ args.candidates[2].cleaned_text = "dup"
    /\ Cardinality(EmbeddingCallIndexes) = 1

-----------------------------------------------------------------------------
(* C13 *)

\* C13: a callback invocation that raised is the last invocation of the call
\* (the failed call is not retried, no other callback is invoked after it; a
\* provider failure is never followed by an incident callback), and evaluate
\* has ended with that callback's failure and without a Decision.
C13_CallbackFailurePropagates ==
    \A k \in DOMAIN calls :
        calls[k].outcome = RAISED =>
            /\ k = Len(calls)
            /\ pc = "raised"
            /\ result = None
            /\ raised = Some(calls[k].fn)
            /\ calls[k].fn = "embedding_fn" => IncidentCallIndexes = {}

C13_Witness ==
    /\ pc = "raised"
    /\ Len(calls) >= 2
    /\ LastCall.fn = "embedding_fn"
    /\ LastCall.outcome = RAISED
    /\ svc._link_to_incident
    /\ matches # <<>>

-----------------------------------------------------------------------------
(* C14 *)

\* Some injected callback invocation of the call raised
CallbackFailed == \E k \in DOMAIN calls : calls[k].outcome = RAISED

\* C14: evaluate ends with a failure only if an injected callback failed; the
\* matchers themselves never fail, whatever fields and timestamps the current
\* record and the candidates carry.
C14_FailureOnlyFromCallback ==
    pc = "raised" => CallbackFailed

-----------------------------------------------------------------------------
(* C17 *)

\* C17: no step of evaluate changes its arguments (the candidate list and
\* every field of every candidate, the embedding field included) or the
\* service (thresholds, window, callbacks): they are the same when the call
\* has returned or failed as they were at its entry.
C17_InputsAndServiceUnchanged ==
    [][args' = args /\ svc' = svc]_vars

C17_Witness ==
    /\ pc \in {"returned", "raised"}
    /\ args.current_embedding # None
    /\ \E k \in DOMAIN args.candidates, c \in EmbeddingCallIndexes :
         /\ ~is_self(args.candidates[k], args.ticket_id)
         /\ args.candidates[k].embedding = None
         /\ calls[c].arg = <<args.candidates[k].cleaned_text>>
         /\ calls[c].outcome = RETURNED

-----------------------------------------------------------------------------
(* metadata_match called directly: on a pair of records X and Y, first with X
   as the current record and Y as the candidate, then the other way round *)

\* The variables of a check() call
checkVars == <<svc, env, args, pc, i, matches, linked_incident_id, result, raised, calls, history, other>>

\* A service built with the defaults and no callback
DefaultService ==
    [_embedding_fn         |-> FALSE,
     _semantic_exact       |-> DEFAULT_EXACT_THRESHOLD,
     _semantic_likely      |-> DEFAULT_LIKELY_THRESHOLD,
     _metadata_window      |-> DEFAULT_WINDOW_HOURS,
     _get_active_incidents |-> FALSE,
     _link_to_incident     |-> FALSE]

\* No check() call is in progress
NoCheck ==
    /\ svc = DefaultService
    /\ env = AnyIncidentCallbacks
    /\ args = [ticket_id |-> "", account_id |-> None, error_message |-> None,
               received_at |-> None, cleaned_text |-> "", current_embedding |-> None,
               candidates |-> <<>>, product |-> None]
    /\ pc = "absent"
    /\ i = 1
    /\ matches = <<>>
    /\ linked_incident_id = None
    /\ result = None
    /\ raised = None
    /\ calls = <<>>
    /\ history = <<>>
    /\ other = NoOther

\* account_id: absent, empty, blank, and identifiers that differ by
\* surrounding whitespace only or in a character
ProbeAccounts ==
    {None, Some(<<>>), Some(<<" ">>), Some(<<"A">>), Some(<<" ", "A", " ">>), Some(<<"B">>)}

\* error_message: absent, empty, blank, and strings that differ by case and
\* whitespace runs only or in a character
ProbeErrors ==
    {None, Some(<<>>), Some(<<" ", " ">>), Some(<<"E", " ", " ", "b">>),
     Some(<<" ", "e", " ", "B">>), Some(<<"e", "b">>)}

\* received_at: absent, naive readings at the edge of a window of one and of
\* two hours and one second past it, and a timezone-aware reading
ProbeTimes ==
    {None, Some(Timestamp(0, FALSE)), Some(Timestamp(3600, FALSE)),
     Some(Timestamp(3601, FALSE)), Some(Timestamp(7200, FALSE)),
     Some(Timestamp(7201, FALSE)), Some(Timestamp(1200, TRUE))}

ProbeRecords(id) ==
    { ProcessedTicketView(id, acc, err, at, "", None) :
        acc \in ProbeAccounts, err \in ProbeErrors, at \in ProbeTimes }

\* The outcome of a call that has not been made
NotCalled == [raised |-> FALSE, ret |-> None, done |-> FALSE]

\* metadata_match lines 40-48: the parameters of the calls
MetadataProbes ==
    [pc                    : {"xy"},
     x                     : ProbeRecords("T1"),
     y                     : ProbeRecords("T2"),
     same_account_required : BOOLEAN,
     same_error_required   : BOOLEAN,
     time_window_hours     : {DEFAULT_WINDOW_HOURS, 2 * DEFAULT_WINDOW_HOURS},
     xy                    : {NotCalled},
     yx                    : {NotCalled}]

InitMetadata ==
    /\ NoCheck
    /\ probe \in MetadataProbes

\* The record that is the current one and the one that is the candidate in
\* the call the probe is at
ProbeCurrent == IF probe.pc = "xy" THEN probe.x ELSE probe.y
ProbeCandidate == IF probe.pc = "xy" THEN probe.y ELSE probe.x

\* The probe with the outcome of the call it is at, moved to the next call
ProbeAfter(outcome) ==
    IF probe.pc = "xy"
    THEN [probe EXCEPT !.xy = outcome, !.pc = "yx"]
    ELSE [probe EXCEPT !.yx = outcome, !.pc = "done"]

\* matchers.metadata_match is called and returns
MetadataMatchReturn ==
    /\ probe.pc \in {"xy", "yx"}
    /\ ~metadata_match_raises(ProbeCurrent.account_id, ProbeCurrent.error_message,
                              ProbeCurrent.received_at, ProbeCandidate,
                              probe.same_account_required, probe.same_error_required)
    /\ probe' = ProbeAfter(
          [raised |-> FALSE,
           ret    |-> metadata_match(ProbeCurrent.account_id, ProbeCurrent.error_message,
                                     ProbeCurrent.received_at, ProbeCandidate,
                                     probe.same_account_required,
                                     probe.same_error_required,
                                     probe.time_window_hours),
           done   |-> TRUE])
    /\ UNCHANGED checkVars

\* matchers.metadata_match is called and raises TypeError
MetadataMatchRaise ==
    /\ probe.pc \in {"xy", "yx"}
    /\ metadata_match_raises(ProbeCurrent.account_id, ProbeCurrent.error_message,
                             ProbeCurrent.received_at, ProbeCandidate,
                             probe.same_account_required, probe.same_error_required)
    /\ probe' = ProbeAfter([raised |-> TRUE, ret |-> None, done |-> TRUE])
    /\ UNCHANGED checkVars

NextMetadata ==
    \/ MetadataMatchReturn
    \/ MetadataMatchRaise

SpecMetadata == InitMetadata /\ [][NextMetadata]_vars

-----------------------------------------------------------------------------
(* C18, C19, C20 *)

\* The probe calls metadata_match with the default configuration
\* (matchers.py lines 45-47)
ProbeDefaultConfig ==
    /\ probe.same_account_required
    /\ probe.same_error_required
    /\ probe.time_window_hours = DEFAULT_WINDOW_HOURS

\* Both account identifiers are present and equal after trimming
AccountsPresentAndEqual(a, b) ==
    /\ a.account_id # None
    /\ b.account_id # None
    /\ Strip(Val(a.account_id)) = Strip(Val(b.account_id))

\* Both error strings are present and equal after trimming, lower-casing and
\* collapsing whitespace runs
ErrorsPresentAndEqual(a, b) ==
    /\ a.error_message # None
    /\ b.error_message # None
    /\ CollapseWhitespace(Lower(Strip(Val(a.error_message))))
         = CollapseWhitespace(Lower(Strip(Val(b.error_message))))

BothTimestampsPresent(a, b) == a.received_at # None /\ b.received_at # None

\* The distance in seconds of two present timestamps
SecondsApart(a, b) == Abs(Val(a.received_at).t - Val(b.received_at).t)

\* C18: with the default configuration, records whose accounts are present
\* and equal after trimming, whose errors are present and equal after
\* normalisation and whose timestamps are present and at most the window
\* apart (the window's edge included) get an Exact match with score 1.0 and
\* the candidate's id.
C18_DefaultConfigMatchesEqualRecords ==
    ( /\ probe.xy.done
      /\ ProbeDefaultConfig
      /\ AccountsPresentAndEqual(probe.x, probe.y)
      /\ ErrorsPresentAndEqual(probe.x, probe.y)
      /\ BothTimestampsPresent(probe.x, probe.y)
      /\ SecondsApart(probe.x, probe.y) <= probe.time_window_hours * 3600 )
    => /\ ~probe.xy.raised
       /\ probe.xy.ret # None
       /\ Val(probe.xy.ret).match_type = EXACT
       /\ Val(probe.xy.ret).similarity_score = Some(SCORE_ONE)
       /\ Val(probe.xy.ret).candidate_ticket_id = probe.y.ticket_id
C20_MetadataMatchSymmetric ==
    probe.pc = "done" =>
        /\ probe.xy.ret # None <=> probe.yx.ret # None
        /\ probe.xy.raised <=> probe.yx.raised

C20_Witness ==
    /\ probe.pc = "done"
    /\ probe.xy.ret # None
    /\ probe.yx.ret # None
    /\ probe.x.account_id # probe.y.account_id
    /\ probe.x.error_message # probe.y.error_message
    /\ Val(probe.x.received_at).t < Val(probe.y.received_at).t
    /\ Val(probe.xy.ret).candidate_ticket_id = probe.y.ticket_id
    /\ Val(probe.yx.ret).candidate_ticket_id = probe.x.ticket_id

-----------------------------------------------------------------------------
(* check() called repeatedly on one service instance whose callbacks are
   deterministic and do not raise *)

\* The number of check() calls made on the instance
MaxCalls == 3

\* Incident callbacks that return the same value at every invocation
DeterministicIncidentCallbacks ==
    {[linker |-> {None},           lister |-> {<<>>}],
     [linker |-> {Some("INC-42")}, lister |-> {<<"INC-7", "INC-42">>}]}

\* A metadata and semantic duplicate, a semantically similar record of
\* another account, and a record whose embedding is computed on demand
FewCandidates ==
    { ProcessedTicketView(p[1], Some(p[2]), Some(<<"d", "b", " ", " ", "e">>),
                          Some(Timestamp(1200, FALSE)), p[3], p[4]) :
        p \in {<<"T2", <<"A", "1", " ">>, "dup", Some(<<4, 3>>)>>,
               <<"T3", <<"A", "2">>, "sim", Some(<<5, 12>>)>>,
               <<"T2", <<"A", "2">>, "dup", None>>} }

\* The arguments of the repeated calls
RepeatArgs ==
    [ticket_id         : {"T1"},
     account_id        : {Some(<<"A", "1">>)},
     error_message     : {Some(<<"D", "b", " ", "E">>)},
     received_at       : {Some(Timestamp(0, FALSE))},
     cleaned_text      : {"dup"},
     current_embedding : {None, Some(<<4, 3>>)},
     candidates        : {<<>>} \cup {<<c>> : c \in FewCandidates},
     product           : {None}]

InitRepeat ==
    /\ svc \in Services
    /\ env \in DeterministicIncidentCallbacks
    /\ args \in RepeatArgs
    /\ EnterCheck
    /\ history = <<>>
    /\ other = NoOther
    /\ probe = NoProbe

\* One completed call: its arguments and the DeduplicationResult it returned
Completed(a, d) == [args |-> a, decision |-> d]

\* Faulty variant of NextCall: `matches` is kept on the instance from one
\* call to the next
NextCall_keeps_matches ==
    /\ pc = "returned"
    /\ Len(history) < MaxCalls - 1
    /\ history' = Append(history, Completed(args, Val(result)))
    /\ args' \in RepeatArgs
    /\ pc' = "metadata"
    /\ i' = 1
    /\ matches' = matches
    /\ linked_incident_id' = None
    /\ result' = None
    /\ raised' = None
    /\ calls' = <<>>
    /\ UNCHANGED <<svc, env, other, probe>>

\* service.py lines 52-70: check() has returned and is called again on the
\* same instance; the locals of the new call are fresh
NextCall ==
    /\ pc = "returned"
    /\ Len(history) < MaxCalls - 1
    /\ history' = Append(history, Completed(args, Val(result)))
    /\ args' \in RepeatArgs
    /\ pc' = "metadata"
    /\ i' = 1
    /\ matches' = <<>>
    /\ linked_incident_id' = None
    /\ result' = None
    /\ raised' = None
    /\ calls' = <<>>
    /\ UNCHANGED <<svc, env, other, probe>>

NextRepeat ==
    \/ MetadataStep
    \/ EnterSemantic
    \/ SkipSemantic
    \/ SemanticStep
    \/ SemanticDone
    \/ IncidentStep
    \/ Decide
    \/ NextCall

SpecRepeat == InitRepeat /\ [][NextRepeat]_vars

-----------------------------------------------------------------------------
(* C15 *)

\* The calls completed on the instance so far, the one that has just
\* returned included
CompletedCalls ==
    IF Returned THEN Append(history, Completed(args, Decision)) ELSE history

\* C15: two calls of evaluate on the same service with identical arguments
\* and deterministic callbacks return identical Decisions (action, matches
\* in order, linked_incident_id), whatever calls were made in between.
C15_SameArgsSameDecision ==
    \A a, b \in DOMAIN CompletedCalls :
        CompletedCalls[a].args = CompletedCalls[b].args
            => CompletedCalls[a].decision = CompletedCalls[b].decision

C15_Witness ==
    /\ Returned
    /\ Len(history) = 2
    /\ history[1].args = args
    /\ history[2].args # args
    /\ history[2].decision.matches # Decision.matches
    /\ Len(Decision.matches) = 2
    /\ history[1].decision = Decision

-----------------------------------------------------------------------------
(* Two check() calls for different records in progress on one service
   instance, their steps interleaved; the callbacks are deterministic and do
   not raise *)

\* The frame of a check() call at its entry (service.py lines 69-70)
Frame(a) ==
    [pc                 |-> "metadata",
     args               |-> a,
     i                  |-> 1,
     matches            |-> <<>>,
     linked_incident_id |-> None,
     result             |-> None,
     calls              |-> <<>>]

\* The arguments of the second call: another record
OtherArgs ==
    [ticket_id         : {"T2"},
     account_id        : {Some(<<"A", "2">>)},
     error_message     : {Some(<<"d", "B", " ", "e">>)},
     received_at       : {Some(Timestamp(600, FALSE))},
     cleaned_text      : {"sim"},
     current_embedding : {None, Some(<<5, 12>>)},
     candidates        : {<<>>} \cup {<<c>> : c \in FewCandidates},
     product           : {None}]

InitConcurrent ==
    /\ svc \in Services
    /\ env \in DeterministicIncidentCallbacks
    /\ args \in RepeatArgs
    /\ EnterCheck
    /\ history = <<>>
    /\ other \in {Frame(a) : a \in OtherArgs}
    /\ probe = NoProbe

\* service.py lines 73-128: the frame o after its next step, where ms is the
\* list the frame uses as its `matches`
other_step(o, ms) ==
    LET a == o.args
        n == Len(a.candidates)
        linked == CHOOSE r \in PossibleLinkerReturns : TRUE
        active == CHOOSE r \in PossibleListerReturns : TRUE
    IN  CASE o.pc = "metadata" /\ o.i <= n ->
               LET cand == a.candidates[o.i]
               IN  [o EXCEPT
                      !.matches =
                          IF is_self(cand, a.ticket_id) THEN ms
                          ELSE append_unless_matched(
                                   ms,
                                   metadata_match(a.account_id, a.error_message,
                                                  a.received_at, cand, TRUE, TRUE,
                                                  svc._metadata_window)),
                      !.i = o.i + 1]
          [] o.pc = "metadata" /\ o.i > n ->
               IF semantic_pass_attempted(a.candidates, a.current_embedding,
                                          svc._embedding_fn)
               THEN [o EXCEPT !.pc = "semantic", !.i = 1, !.matches = ms]
               ELSE [o EXCEPT !.pc = "incident", !.matches = ms]
          [] o.pc = "semantic" /\ o.i <= n ->
               LET cand == a.candidates[o.i]
                   r == semantic_match(a.current_embedding, a.cleaned_text, cand,
                                       svc._embedding_fn, svc._semantic_exact,
                                       svc._semantic_likely)
               IN  IF is_self(cand, a.ticket_id)
                   THEN [o EXCEPT !.i = o.i + 1, !.matches = ms]
                   ELSE [o EXCEPT
                           !.matches = append_unless_matched(ms, r.ret),
                           !.calls = o.calls
                                     \o EmbeddingCalls(r.invoked, Len(r.invoked), TRUE),
                           !.i = o.i + 1]
          [] o.pc = "semantic" /\ o.i > n ->
               [o EXCEPT !.pc = "incident", !.matches = ms]
          [] o.pc = "incident" ->
               LET r == incident_match(
                            a.ticket_id, a.account_id, a.product,
                            IF svc._get_active_incidents THEN Some(active) ELSE None,
                            IF svc._link_to_incident THEN Some(linked) ELSE None)
                   inc_match == r.ret[1]
               IN  [o EXCEPT
                      !.matches = IF inc_match # None
                                  THEN Append(ms, Val(inc_match)) ELSE ms,
                      !.linked_incident_id = IF inc_match # None
                                             THEN r.ret[2] ELSE o.linked_incident_id,
                      !.calls = o.calls \o
                          [k \in 1..Len(r.invoked) |->
                              IF r.invoked[k] = LINK_TO_INCIDENT
                              THEN Call(LINK_TO_INCIDENT,
                                        <<a.ticket_id, a.account_id, a.product>>,
                                        RETURNED, linked)
                              ELSE Call(GET_ACTIVE_INCIDENT_IDS, <<>>, RETURNED, active)],
                      !.pc = "decide"]
          [] o.pc = "decide" ->
               [o EXCEPT
                  !.result = Some(DeduplicationResult(a.ticket_id, decide_action(ms),
                                                      ms, o.linked_incident_id)),
                  !.matches = ms,
                  !.pc = "returned"]

\* Faulty variant of OtherStep: `matches` is a list of the instance, shared
\* by the calls in progress
OtherStep_shares_matches ==
    /\ other.pc \in {"metadata", "semantic", "incident", "decide"}
    /\ other' = other_step(other, matches)
    /\ matches' = other'.matches
    /\ UNCHANGED <<svc, env, args, pc, i, linked_incident_id, result, raised, calls, history, probe>>

\* service.py lines 73-128: the second call takes its next step, on its own
\* locals
OtherStep ==
    /\ other.pc \in {"metadata", "semantic", "incident", "decide"}
    /\ other' = other_step(other, other.matches)
    /\ UNCHANGED <<svc, env, args, pc, i, matches, linked_incident_id, result, raised, calls, history, probe>>

NextConcurrent ==
    \/ MetadataStep
    \/ EnterSemantic
    \/ SkipSemantic
    \/ SemanticStep
    \/ SemanticDone
    \/ IncidentStep
    \/ Decide
    \/ OtherStep

SpecConcurrent == InitConcurrent /\ [][NextConcurrent]_vars

-----------------------------------------------------------------------------
(* C16 *)

\* The frame in which a call that runs alone returns
RECURSIVE run_alone(_)
run_alone(o) ==
    IF o.pc = "returned" THEN o ELSE run_alone(other_step(o, o.matches))

\* C16: each of two evaluate calls for different records whose steps are
\* interleaved in any order on one service instance returns the Decision it
\* returns when run alone, so no Match detected for one record appears in the
\* other record's Decision.
C16_ConcurrentCallsIndependent ==
    /\ Returned => result = run_alone(Frame(args)).result
    /\ other.pc = "returned" => other.result = run_alone(Frame(other.args)).result

C16_Witness ==
    /\ Returned
    /\ other.pc = "returned"
    /\ \E k \in DOMAIN Decision.matches :
         Decision.matches[k].candidate_ticket_id = "T2"
    /\ \E k \in DOMAIN Val(other.result).matches :
         Val(other.result).matches[k].candidate_ticket_id = "T3"
    /\ \A k \in DOMAIN Decision.matches :
         Decision.matches[k].candidate_ticket_id # "T3"
    /\ \A k \in DOMAIN Val(other.result).matches :
         Val(other.result).matches[k].candidate_ticket_id # "T2"

-----------------------------------------------------------------------------
(* semantic_match called directly *)

\* Embeddings: absent, empty, all-zero, of length three, and vectors of
\* length two with an integer norm whose cosines fall on, between and on
\* either side of the thresholds below
ProbeEmbeddings ==
    {None, Some(<<>>), Some(<<0, 0>>), Some(<<1, 0, 0>>), Some(<<1, 0>>),
     Some(<<4, 3>>), Some(<<3, 4>>), Some(<<5, 12>>), Some(<<8, 15>>),
     Some(<<-4, -3>>)}

\* exact_threshold and likely_threshold, likely < exact: the defaults; a pair
\* that the cosines 4/5 and 77/85 meet at the edge; a pair that is not positive
ProbeThresholds ==
    {<<DEFAULT_EXACT_THRESHOLD, DEFAULT_LIKELY_THRESHOLD>>,
     <<Frac(9059, 10000), Frac(4, 5)>>,
     <<Frac(0, 1), Frac(-1, 1)>>}

\* matchers.semantic_match lines 95-103: the parameters of the call
SemanticProbes ==
    { [pc                |-> "call",
       current_embedding |-> ce,
       current_text      |-> ct,
       candidate         |-> ProcessedTicketView("T2", None, None, None, t, e),
       embedding_fn      |-> f,
       exact_threshold   |-> th[1],
       likely_threshold  |-> th[2],
       out               |-> [raised |-> FALSE, ret |-> None, invoked |-> <<>>]] :
        ce \in ProbeEmbeddings, ct \in {"", "dup"}, t \in {"", "sim"},
        e \in ProbeEmbeddings, f \in BOOLEAN, th \in ProbeThresholds }

InitSemantic ==
    /\ NoCheck
    /\ probe \in SemanticProbes

\* What semantic_match does on the parameters of the probe
ProbeSemanticMatch ==
    semantic_match(probe.current_embedding, probe.current_text, probe.candidate,
                   probe.embedding_fn, probe.exact_threshold, probe.likely_threshold)

\* matchers.semantic_match is called and returns
SemanticMatchReturn ==
    /\ probe.pc = "call"
    /\ probe' = [probe EXCEPT
                   !.pc = "done",
                   !.out = [raised  |-> FALSE,
                            ret     |-> ProbeSemanticMatch.ret,
                            invoked |-> ProbeSemanticMatch.invoked]]
    /\ UNCHANGED checkVars

\* matchers.semantic_match lines 111 and 113: an embedding_fn invocation
\* raises and the exception leaves semantic_match
SemanticMatchRaise ==
    /\ probe.pc = "call"
    /\ \E n \in DOMAIN ProbeSemanticMatch.invoked :
         probe' = [probe EXCEPT
                     !.pc = "done",
                     !.out = [raised  |-> TRUE,
                              ret     |-> None,
                              invoked |-> SubSeq(ProbeSemanticMatch.invoked, 1, n)]]
    /\ UNCHANGED checkVars

NextSemantic ==
    \/ SemanticMatchReturn
    \/ SemanticMatchRaise

SpecSemantic == InitSemantic /\ [][NextSemantic]_vars

-----------------------------------------------------------------------------
(* C21, C22 *)

\* The call of the probe has returned
ProbeReturned == probe.pc = "done" /\ ~probe.out.raised

\* The embedding of a record after lazy resolution (matchers.py lines 110-114)
Resolved(embedding, text) ==
    IF embedding # None THEN embedding
    ELSE IF probe.embedding_fn /\ text # "" THEN Some(EmbeddingFn(text))
    ELSE None
ResolvedCurrent == Resolved(probe.current_embedding, probe.current_text)
ResolvedCandidate == Resolved(probe.candidate.embedding, probe.candidate.cleaned_text)

\* Both resolved embeddings are present, non-empty and of the same length
Comparable ==
    /\ ResolvedCurrent # None
    /\ ResolvedCandidate # None
    /\ Val(ResolvedCurrent) # <<>>
    /\ Len(Val(ResolvedCurrent)) = Len(Val(ResolvedCandidate))

\* The similarity of the two resolved embeddings
Similarity == cosine_similarity(Val(ResolvedCurrent), Val(ResolvedCandidate))

\* The kind of the match the probe returned ("no match" if none)
ProbeKind ==
    IF probe.out.ret = None THEN "no match" ELSE Val(probe.out.ret).match_type

\* C21: for thresholds with likely < exact and two present embeddings of
\* equal length, semantic_match returns Exact iff similarity >= exact, Likely
\* iff likely <= similarity < exact and no match iff similarity < likely; a
\* similarity equal to a threshold belongs to that threshold's band.
C21_ThresholdBanding ==
    (ProbeReturned /\ Comparable) =>
        /\ ProbeKind \in {EXACT, LIKELY, "no match"}
        /\ ProbeKind = EXACT <=> FracGE(Similarity, probe.exact_threshold)
        /\ ProbeKind = LIKELY <=>
              /\ FracGE(Similarity, probe.likely_threshold)
              /\ ~FracGE(Similarity, probe.exact_threshold)
        /\ ProbeKind = "no match" <=> ~FracGE(Similarity, probe.likely_threshold)

C21_Witness ==
    /\ ProbeReturned
    /\ Comparable
    /\ Similarity = Frac(4, 5)
    /\ probe.likely_threshold = Frac(4, 5)
    /\ ProbeKind = LIKELY

\* C22: semantic_match returns no match when after lazy resolution the
\* current or the candidate embedding is absent or the two vectors differ in
\* length, and it fails only if the embedding provider it invoked failed.
C22_NoMatchWithoutComparableVectors ==
    probe.pc = "done" =>
        /\ probe.out.raised => probe.out.invoked # <<>>
        /\ ( /\ ~probe.out.raised
             /\ \/ ResolvedCurrent = None
                \/ ResolvedCandidate = None
                \/ Len(Val(ResolvedCurrent)) # Len(Val(ResolvedCandidate)) )
           => probe.out.ret = None

C22_Witness ==
    /\ ProbeReturned
    /\ probe.current_embedding = None
    /\ probe.out.invoked = <<"dup">>
    /\ probe.candidate.embedding = Some(<<1, 0, 0>>)
    /\ probe.exact_threshold = Frac(0, 1)
    /\ probe.out.ret = None

-----------------------------------------------------------------------------
(* C23 *)

\* A resolved embedding is present, non-empty and all its components are zero
IsZeroVector(e) ==
    /\ e # None
    /\ Val(e) # <<>>
    /\ \A k \in DOMAIN Val(e) : Val(e)[k] = 0

SomeZeroVector == IsZeroVector(ResolvedCurrent) \/ IsZeroVector(ResolvedCandidate)

\* C23 as claimed: semantic_match never returns a Match when a resolved
\* embedding has norm zero, for every pair of thresholds.
C23_ZeroVectorNeverMatches ==
    (ProbeReturned /\ SomeZeroVector) => probe.out.ret = None

\* C23 amended: semantic_match never returns a Match when a resolved
\* embedding has norm zero, for every pair of thresholds whose
\* likely_threshold is above zero; the similarity of a zero vector is 0.0.
C23_ZeroVectorNeverMatchesAbovePositiveThreshold ==
    (ProbeReturned /\ SomeZeroVector) =>
        /\ Comparable => Similarity = Frac(0, 1)
        /\ ~FracGE(Frac(0, 1), probe.likely_threshold) => probe.out.ret = None

C23_Witness ==
    /\ ProbeReturned
    /\ probe.current_embedding = Some(<<0, 0>>)
    /\ probe.candidate.embedding = Some(<<4, 3>>)
    /\ probe.likely_threshold = DEFAULT_LIKELY_THRESHOLD
    /\ probe.out.ret = None

-----------------------------------------------------------------------------
(* C26 *)

\* The score the returned match reports, as a fraction
ReportedScore == Frac(Val(Val(probe.out.ret).similarity_score), SCORE_ONE)

\* C26 as claimed: an Exact match reports a score >= exact_threshold and a
\* Likely match reports a score s with likely_threshold <= s < exact_threshold.
C26_ReportedScoreInBandOfKind ==
    (ProbeReturned /\ probe.out.ret # None) =>
        /\ ProbeKind = EXACT => FracGE(ReportedScore, probe.exact_threshold)
        /\ ProbeKind = LIKELY =>
              /\ FracGE(ReportedScore, probe.likely_threshold)
              /\ ~FracGE(ReportedScore, probe.exact_threshold)

\* C26 amended: the kind is decided on the similarity (Exact: similarity >=
\* exact_threshold, Likely: likely_threshold <= similarity < exact_threshold)
\* and the reported score is that similarity rounded to four decimals, at
\* most 0.00005 away from it.
C26_ReportedScoreIsRoundedSimilarity ==
    (ProbeReturned /\ probe.out.ret # None) =>
        /\ ProbeKind = EXACT => FracGE(Similarity, probe.exact_threshold)
        /\ ProbeKind = LIKELY =>
              /\ FracGE(Similarity, probe.likely_threshold)
              /\ ~FracGE(Similarity, probe.exact_threshold)
        /\ 2 * Abs(ReportedScore.n * Similarity.d - SCORE_ONE * Similarity.n)
              <= Similarity.d

C26_Witness ==
    /\ ProbeReturned
    /\ probe.out.ret # None
    /\ Similarity = Frac(77, 85)
    /\ probe.exact_threshold = Frac(9059, 10000)
    /\ ProbeKind = LIKELY
    /\ ReportedScore = probe.exact_threshold

-----------------------------------------------------------------------------
(* C24 *)

\* A present score lies in [0, 1]
ScoreInUnitInterval(m) ==
    m.similarity_score # None =>
        Val(m.similarity_score) >= 0 /\ Val(m.similarity_score) <= SCORE_ONE

-----------------------------------------------------------------------------
(* C25, C29 *)

\* What the reason of a metadata match names
MentionsAccount(reason) == reason \in {REASON_ACCOUNT_ERROR_TIME, REASON_ACCOUNT_TIME}
MentionsError(reason) == reason = REASON_ACCOUNT_ERROR_TIME

\* C25: every match metadata_match returns has a non-empty reason that names
\* the account only when same_account_required is enabled and the error
\* string only when same_error_required is enabled, in all four combinations
\* of the flags.
C25_ReasonNamesEnabledCriteria ==
    (probe.xy.done /\ probe.xy.ret # None) =>
        LET reason == Val(probe.xy.ret).reason
        IN  /\ reason # ""
            /\ MentionsAccount(reason) <=> probe.same_account_required
            /\ MentionsError(reason) <=> probe.same_error_required

\* An account identifier is absent or empty after trimming whitespace
AccountEmptyAfterTrimming(r) ==
    r.account_id = None \/ Strip(Val(r.account_id)) = <<>>

\* C29: with same_account_required enabled, metadata_match never returns a
\* match when either account identifier is empty after trimming whitespace.
C29_NoMatchOnBlankAccount ==
    ( /\ probe.xy.done
      /\ probe.same_account_required
      /\ \/ AccountEmptyAfterTrimming(probe.x)
         \/ AccountEmptyAfterTrimming(probe.y) )
    => probe.xy.ret = None

-----------------------------------------------------------------------------
(* C28 *)

\* The provider invocations made with the current record's text
CurrentTextInvocations ==
    {k \in EmbeddingCallIndexes : calls[k].arg = <<args.cleaned_text>>}

\* No candidate whose embedding is computed on demand has the text of the
\* current record, so every invocation with that text is for the current record
CurrentTextIsOwn ==
    \A k \in DOMAIN args.candidates :
        args.candidates[k].embedding = None
            => args.candidates[k].cleaned_text # args.cleaned_text

\* The candidates that are compared: all but the record itself
ComparedCandidates ==
    {k \in DOMAIN args.candidates : ~is_self(args.candidates[k], args.ticket_id)}

\* C28 as claimed: within one call the provider is invoked at most once with
\* the current record's text.
C28_CurrentTextEmbeddedAtMostOnce ==
    CurrentTextIsOwn => Cardinality(CurrentTextInvocations) <= 1

\* C28 amended: within one call the provider is invoked with the current
\* record's text at most once per compared candidate, and in a call that
\* returns with no current embedding supplied exactly once per compared
\* candidate: the embedding is recomputed for every candidate; it is never
\* invoked with that text when a current embedding was supplied.
C28_CurrentTextEmbeddedOncePerCandidate ==
    CurrentTextIsOwn =>
        /\ Cardinality(CurrentTextInvocations) <= Cardinality(ComparedCandidates)
        /\ args.current_embedding # None => CurrentTextInvocations = {}
        /\ (Returned /\ args.current_embedding = None /\ svc._embedding_fn)
              => Cardinality(CurrentTextInvocations) = Cardinality(ComparedCandidates)

C28_Witness ==
    /\ Returned
    /\ CurrentTextIsOwn
    /\ args.current_embedding = None
    /\ svc._embedding_fn
    /\ Cardinality(ComparedCandidates) = 2
    /\ Cardinality(CurrentTextInvocations) = 2

-----------------------------------------------------------------------------
(* C30 *)

\* The semantic loop is at a candidate other than the record itself that
\* already has a match in `matches`
AtMatchedCandidate ==
    /\ pc = "semantic"
    /\ i <= Len(args.candidates)
    /\ ~is_self(args.candidates[i], args.ticket_id)
    /\ _already_matched(args.candidates[i].ticket_id, matches)

\* The texts semantic_match hands to the provider for candidate k
ProviderTextsFor(k) ==
    semantic_match(args.current_embedding, args.cleaned_text, args.candidates[k],
                   svc._embedding_fn, svc._semantic_exact, svc._semantic_likely).invoked

\* C30 as claimed: in the semantic pass a candidate that already has a match
\* is skipped before any work is done for it: the provider is not invoked in
\* its step, so a provider failure cannot end the call there.
C30_MatchedCandidateSkipped ==
    [][AtMatchedCandidate => (calls' = calls /\ pc' # "raised")]_vars

\* C30 amended: in the semantic pass a candidate that already has a match is
\* compared like any other: the provider is invoked with the texts that lack
\* a vector, and the call ends with the failure if an invocation raises;
\* only no second match is appended for the candidate.
C30_MatchedCandidateComparedNotAppended ==
    [][AtMatchedCandidate =>
          /\ matches' = matches
          /\ LET new == EmbeddedTexts(calls', Len(calls) + 1, Len(calls'))
             IN  IF pc' = "raised"
                 THEN /\ new # <<>>
                      /\ new = SubSeq(ProviderTextsFor(i), 1, Len(new))
                      /\ calls'[Len(calls')].outcome = RAISED
                 ELSE new = ProviderTextsFor(i)]_vars

C30_Witness ==
    /\ pc = "raised"
    /\ calls # <<>>
    /\ LastCall.fn = "embedding_fn"
    /\ LastCall.outcome = RAISED
    /\ args.current_embedding # None
    /\ i <= Len(args.candidates)
    /\ args.candidates[i].embedding = None
    /\ LastCall.arg = <<args.candidates[i].cleaned_text>>
    /\ _already_matched(args.candidates[i].ticket_id, matches)
    /\ IsMetadataDetected(matches[1])
    /\ matches[1].candidate_ticket_id = args.candidates[i].ticket_id

-----------------------------------------------------------------------------
(* One check() call whose steps are taken as long as one is possible: every
   callback invocation returns or raises *)

\* A duplicate that carries its embedding, two records whose embedding is
\* computed on demand, and a record with a timezone-aware timestamp
LiveCandidates ==
    FewCandidates
    \cup { ProcessedTicketView("T3", Some(<<"A", "2">>), Some(<<"d", "b", " ", " ", "e">>),
                               Some(Timestamp(1200, FALSE)), "sim", None),
           ProcessedTicketView("T3", Some(<<"A", "1", " ">>), Some(<<"d", "b", " ", " ", "e">>),
                               Some(Timestamp(1200, TRUE)), "dup", None) }

LiveArgs ==
    [ticket_id         : {"T1"},
     account_id        : {Some(<<"A", "1">>)},
     error_message     : {Some(<<"D", "b", " ", "E">>)},
     received_at       : {Some(Timestamp(0, FALSE))},
     cleaned_text      : {"dup"},
     current_embedding : {None, Some(<<4, 3>>)},
     candidates        : SeqsUpTo(LiveCandidates, MaxCandidates),
     product           : {None}]

InitLive ==
    /\ svc \in Services
    /\ env = AnyIncidentCallbacks
    /\ args \in LiveArgs
    /\ EnterCheck
    /\ history = <<>>
    /\ other = NoOther
    /\ probe = NoProbe

SpecLive == InitLive /\ [][Next]_vars /\ WF_vars(Next)

-----------------------------------------------------------------------------
(* C27: termination and callback budget of one check() call *)

\* check() has left: it returned its Decision or propagated an exception
CheckEnded == pc \in {"returned", "raised"}

\* At most two embedding_fn invocations per candidate and one incident
\* callback invocation have been logged
WithinCallBudget ==
    /\ Cardinality(EmbeddingCallIndexes) <= 2 * Len(args.candidates)
    /\ Cardinality(IncidentCallIndexes) <= 1

\* C27: when every callback invocation returns or raises, a check() call on a
\* finite candidate list eventually ends with a Decision or a propagated
\* exception, and at no point has it made more than 2 * |candidates|
\* embedding_fn invocations or more than one incident callback invocation
C27_EndsWithinCallBudget == <>CheckEnded /\ []WithinCallBudget

\* A call over two candidates that returned its Decision after spending the
\* whole budget: four embedding_fn invocations and one incident invocation
C27_Witness ==
    /\ pc = "returned"
    /\ result # None
    /\ Len(args.candidates) = 2
    /\ Cardinality(EmbeddingCallIndexes) = 2 * Len(args.candidates)
    /\ Cardinality(IncidentCallIndexes) = 1

=============================================================================
